---- MODULE Spec2Model ----
(***************************************************************************)
(* The structured canvas editor of ai-style-architect:                     *)
(*   - the useStructuredCanvas hook (scene, selection, history, drawing,   *)
(*     z-order, alignment),                                                *)
(*   - the StructuredCanvasRenderer pointer handlers (pan, drag, resize,   *)
(*     marquee, draw) and the CanvasElement mouse handlers,                *)
(*   - the CanvasSection keyboard/toolbar wiring and the PropertyPanel.    *)
(* Scene coordinates are integers; the viewport is the identity           *)
(* (zoom 1, pan 0), so pointer positions are scene positions.              *)
(***************************************************************************)
EXTENDS Integers, Sequences, FiniteSets, TLC

\* ------------------------------------------------------------------ bounds
\* number of user events (pointer, key, panel, frame callbacks) in a run
MaxSteps == 5
\* number of those events that are key presses, toolbar or panel clicks, hook calls
MaxEdits == 2
\* number of mouse buttons held down together
MaxButtons == 1
\* number of mouse buttons pressed together in a run of the gesture specification
MaxChord == 2
\* number of events, and of tool changes among them, in such a run
MaxChordSteps == 5
MaxChordEdits == 1
\* number of events in a run of the snap specification
MaxSnapSteps == 4
\* number of elements added to the store, and of store calls, in a run of the
\* store specification
MaxStoreElements == 3
MaxStoreSteps == 6
\* number of events in a run of the freehand specification
MaxSketchSteps == 7
\* number of events, and of AI requests among them, in a run of the page
\* specification
MaxPageSteps == 7
MaxRequests == 3
\* number of events in a run of the history specification
MaxPushes == 54
\* number of events in a run of the arrangement specification
MaxArrange == 7
MaxPaint == 8
MaxPaintEdits == 4
MaxToolSteps == 5
MaxCallSteps == 6
MaxCallEdits == 3
MaxToolEdits == 3
MaxView == 12
MaxViewEdits == 2
MaxPanAbs == 10
ZoomTermCap == 10000000

\* ------------------------------------------------------- program constants
GRID_SIZE == 10
MIN_SIZE == 20
HISTORY_LIMIT == 50
MARQUEE_MIN == 5
DEFAULT_W == 100
DEFAULT_H == 40

NoId == 0

\* ----------------------------------------------------------------- numbers
Abs(v) == IF v < 0 THEN 0 - v ELSE v
Max2(a, b) == IF a >= b THEN a ELSE b
Min2(a, b) == IF a <= b THEN a ELSE b
SetMax(S) == CHOOSE m \in S : \A v \in S : v <= m
SetMin(S) == CHOOSE m \in S : \A v \in S : m <= v

\* Math.round(value / GRID_SIZE) * GRID_SIZE; Math.round rounds halves up
snapToGrid(value) == ((value + (GRID_SIZE \div 2)) \div GRID_SIZE) * GRID_SIZE

\* a || b on numbers: b when a is 0
OrElse(a, b) == IF a = 0 THEN b ELSE a

Range(s) == {s[i] : i \in DOMAIN s}
Includes(s, v) == v \in Range(s)
Filter(s, S) == SelectSeq(s, LAMBDA v : v \in S)
Without(s, v) == SelectSeq(s, LAMBDA w : w # v)

\* ------------------------------------------- elements: Record<string, CanvasElement>
\* A JavaScript object keeps its keys in insertion order, and undo/redo read
\* that order (Object.values): the map is a sequence of elements, unique by id.
Ids(els) == {els[i].id : i \in DOMAIN els}
Has(els, id) == id \in Ids(els)
Get(els, id) == els[CHOOSE i \in DOMAIN els : els[i].id = id]
Put(els, el) ==
    IF Has(els, el.id)
    THEN [i \in DOMAIN els |-> IF els[i].id = el.id THEN el ELSE els[i]]
    ELSE Append(els, el)
Del(els, id) == SelectSeq(els, LAMBDA e : e.id # id)
AsMap(els) == [id \in Ids(els) |-> Get(els, id)]

Bounds(x, y, w, h) == [x |-> x, y |-> y, width |-> w, height |-> h]
Position(x, y) == [x |-> x, y |-> y]

El(id, type, b, z, parent, kids) ==
    [id |-> id, type |-> type, bounds |-> b, zIndex |-> z, locked |-> FALSE,
     parentId |-> parent, childIds |-> kids]

\* ------------------------------------------------- inputs drawn in the model
\* pointer positions (scene coordinates)
Pos == {Position(0, 0), Position(5, 50), Position(70, 70)}

\* tools offered by the toolbar and the key bindings (a subset of StructuredTool)
Tools == {"select", "hand", "rectangle"}

\* the eight resize handles
Handles == {"top-left", "top", "top-right", "right",
            "bottom-right", "bottom", "bottom-left", "left"}

AlignAxes == {"left", "center-h", "right", "top", "center-v", "bottom"}

\* pointer deltas of a drag frame (scene coordinates)
SnapDeltas == {Position(dx, dy) : dx \in {0, 5, 32, 35, 38}, dy \in {0, 3, 90, 95}}

\* tools of the freehand canvas (a subset of Tool), pointer positions on it,
\* and the sketch of the example gallery
SketchTools == {"pen", "select"}
SketchPoints == {Position(0, 0)}
ExampleSketch == << [id |-> 101, type |-> "rectangle",
                     points |-> <<Position(150, 50), Position(350, 350)>>] >>

\* the tabs of the sketch page's sidebar, and how a request can end: with
\* data, or with an error (a result without data, or a rejected promise)
SidebarTabs == {"upload", "typography", "colors", "examples"}
Outcomes == {"data", "error"}

\* scenes found in local storage at start-up, or handed to importFromJSON
EmptyScene == [elements |-> <<>>, rootIds |-> <<>>]
MarqueeScene ==
    [elements |-> << El(1, "rectangle", Bounds(10, 10, 50, 50), 0, NoId, <<>>),
                     El(2, "rectangle", Bounds(100, 100, 50, 50), 1, NoId, <<>>) >>,
     rootIds |-> <<1, 2>>]
AlignScene ==
    [elements |-> << El(1, "rectangle", Bounds(10, 10, 20, 20), 0, NoId, <<>>),
                     El(2, "rectangle", Bounds(40, 20, 30, 30), 1, NoId, <<>>),
                     El(3, "rectangle", Bounds(25, 40, 20, 30), 2, NoId, <<>>) >>,
     rootIds |-> <<1, 2, 3>>]
FrameScene ==
    [elements |-> << El(1, "frame", Bounds(0, 0, 100, 100), 0, NoId, <<2>>),
                     El(2, "container", Bounds(10, 10, 60, 60), 1, 1, <<3>>),
                     El(3, "text", Bounds(20, 20, 40, 20), 2, 2, <<>>) >>,
     rootIds |-> <<1>>]
SnapScene ==
    [elements |-> << El(1, "rectangle", Bounds(10, 10, 20, 20), 0, NoId, <<>>),
                     El(2, "rectangle", Bounds(40, 100, 20, 20), 1, NoId, <<>>),
                     El(3, "rectangle", Bounds(50, 110, 20, 20), 2, NoId, <<>>) >>,
     rootIds |-> <<1, 2, 3>>]
SavedScenes == {EmptyScene, MarqueeScene, AlignScene, FrameScene}
\* scenes to distribute: three elements in a row, and four of which two share x and two share y
DistributeScene ==
    [elements |-> << El(1, "rectangle", Bounds(0, 0, 20, 20), 0, NoId, <<>>),
                     El(2, "rectangle", Bounds(50, 60, 20, 20), 1, NoId, <<>>),
                     El(3, "rectangle", Bounds(200, 20, 20, 20), 2, NoId, <<>>) >>,
     rootIds |-> <<1, 2, 3>>]
StackScene ==
    [elements |-> << El(1, "rectangle", Bounds(30, 0, 20, 20), 0, NoId, <<>>),
                     El(2, "rectangle", Bounds(0, 0, 20, 20), 1, NoId, <<>>),
                     El(3, "rectangle", Bounds(30, 40, 20, 20), 2, NoId, <<>>),
                     El(4, "rectangle", Bounds(90, 90, 20, 20), 3, NoId, <<>>) >>,
     rootIds |-> <<1, 2, 3, 4>>]
ArrangeScenes == {DistributeScene, StackScene, AlignScene}
ArrangePos == {Position(0, 0), Position(220, 220)}
ImportScenes == {FrameScene}
\* a document whose rootIds list the two lower elements, both at zIndex 0, in
\* the other order than the keys of elements
TieScene ==
    [elements |-> << El(1, "rectangle", Bounds(0, 0, 40, 40), 0, NoId, <<>>),
                     El(2, "rectangle", Bounds(20, 20, 40, 40), 0, NoId, <<>>),
                     El(3, "rectangle", Bounds(100, 100, 40, 40), 1, NoId, <<>>) >>,
     rootIds |-> <<2, 1, 3>>]
PaintScenes == {TieScene, MarqueeScene}

\* an id no element has: a call that arrives after the element is gone
MissingId == 99
CallIds == {1, MissingId}

\* ids of generateId(): fresh, never one of a stored scene
FirstFreshId == 10


\* ------------------------------------------- the hook's state and its updaters
\* StructuredCanvasState: [elements, rootIds, selectedIds, past, future]
\* (history.past / history.future are flattened; hoveredId and clipboard are
\*  never written by the hook and are left out).  Every updater below is the
\*  function handed to setState; React applies queued updaters in order.

LastN(s, n) == IF Len(s) <= n THEN s ELSE SubSeq(s, Len(s) - n + 1, Len(s))

InitialState(saved) ==
    [elements |-> saved.elements, rootIds |-> saved.rootIds,
     selectedIds |-> <<>>, past |-> <<>>, future |-> <<>>]

saveToHistoryNoSlice(s) ==
    [s EXCEPT !.past = Append(s.past, s.elements), !.future = <<>>]
saveToHistory(s) ==
    [s EXCEPT !.past = LastN(Append(s.past, s.elements), HISTORY_LIMIT),
              !.future = <<>>]

\* Object.values(els).filter(el => !el.parentId).map(el => el.id)
RootsOf(els) ==
    LET roots == SelectSeq(els, LAMBDA e : e.parentId = NoId)
    IN  [i \in DOMAIN roots |-> roots[i].id]

undo(s) ==
    IF Len(s.past) = 0 THEN s
    ELSE LET previousElements == s.past[Len(s.past)]
         IN  [s EXCEPT !.elements = previousElements,
                       !.rootIds = RootsOf(previousElements),
                       !.past = SubSeq(s.past, 1, Len(s.past) - 1),
                       !.future = <<s.elements>> \o s.future]

redo(s) ==
    IF Len(s.future) = 0 THEN s
    ELSE LET nextElements == Head(s.future)
         IN  [s EXCEPT !.elements = nextElements,
                       !.rootIds = RootsOf(nextElements),
                       !.past = Append(s.past, s.elements),
                       !.future = Tail(s.future)]

getNextZIndex(els) ==
    IF Len(els) = 0 THEN 0 ELSE SetMax({els[i].zIndex : i \in DOMAIN els}) + 1

\* the element variant a tool creates; "" for select, hand and unknown tools
VariantOf(tool) ==
    CASE tool \in {"frame", "container", "text", "button", "input", "image",
                   "rectangle", "circle", "line", "arrow"} -> tool
      [] tool \in {"auto-layout-v", "auto-layout-h"} -> "auto-layout"
      [] OTHER -> ""

createElementAnyTool(tool, bounds, id, els) ==
    << El(id, IF VariantOf(tool) = "" THEN "rectangle" ELSE VariantOf(tool), bounds,
          getNextZIndex(els), NoId, <<>>) >>

\* createElement: <<>> for null, else <<element>>
createElement(tool, bounds, id, els) ==
    IF VariantOf(tool) = "" THEN <<>>
    ELSE << El(id, VariantOf(tool), bounds, getNextZIndex(els), NoId, <<>>) >>

addElement(s, element) ==
    LET h == saveToHistory(s)
    IN  [h EXCEPT !.elements = Put(h.elements, element),
                  !.rootIds = IF element.parentId # NoId THEN h.rootIds
                              ELSE Append(h.rootIds, element.id),
                  !.selectedIds = <<element.id>>]

\* { ...element, ...updates }: a shallow merge of the given fields
Merge(element, updates) ==
    [f \in DOMAIN element |-> IF f \in DOMAIN updates THEN updates[f] ELSE element[f]]

updateElement(s, id, updates) ==
    IF ~Has(s.elements, id) THEN s
    ELSE [s EXCEPT !.elements = Put(s.elements, Merge(Get(s.elements, id), updates))]

RECURSIVE DelAll(_, _)
DelAll(els, ids) ==
    IF Len(ids) = 0 THEN els ELSE DelAll(Del(els, Head(ids)), Tail(ids))

\* splice(indexOf(id), 1) for each id: the first occurrence of each is removed
RECURSIVE RemoveFirst(_, _)
RemoveFirst(s, v) ==
    IF Len(s) = 0 THEN s
    ELSE IF Head(s) = v THEN Tail(s) ELSE <<Head(s)>> \o RemoveFirst(Tail(s), v)
RECURSIVE RemoveEach(_, _)
RemoveEach(s, ids) ==
    IF Len(ids) = 0 THEN s ELSE RemoveEach(RemoveFirst(s, Head(ids)), Tail(ids))

deleteSelected(s) ==
    LET h == saveToHistory(s)
    IN  [h EXCEPT !.elements = DelAll(h.elements, h.selectedIds),
                  !.rootIds = RemoveEach(h.rootIds, h.selectedIds),
                  !.selectedIds = <<>>]

selectElement(s, id, addToSelection) ==
    IF id = NoId THEN [s EXCEPT !.selectedIds = <<>>]
    ELSE IF addToSelection
         THEN IF Includes(s.selectedIds, id)
              THEN [s EXCEPT !.selectedIds = Without(s.selectedIds, id)]
              ELSE [s EXCEPT !.selectedIds = Append(s.selectedIds, id)]
         ELSE [s EXCEPT !.selectedIds = <<id>>]

\* the ids moveElement writes: the selection when the dragged element is in it
MovedIds(s, id) ==
    IF ~Has(s.elements, id) \/ Get(s.elements, id).locked THEN {}
    ELSE {m \in (IF Includes(s.selectedIds, id) THEN Range(s.selectedIds) ELSE {id}) :
            Has(s.elements, m) /\ ~Get(s.elements, m).locked}

moveElementSaving(s, id, delta) ==
    [saveToHistory(s) EXCEPT !.elements =
        [i \in DOMAIN s.elements |->
            LET el == s.elements[i]
            IN  IF el.id \in MovedIds(s, id)
                THEN [el EXCEPT !.bounds.x = snapToGrid(el.bounds.x + delta.x),
                                !.bounds.y = snapToGrid(el.bounds.y + delta.y)]
                ELSE el]]

moveElement(s, id, delta) ==
    [s EXCEPT !.elements =
        [i \in DOMAIN s.elements |->
            LET el == s.elements[i]
            IN  IF el.id \in MovedIds(s, id)
                THEN [el EXCEPT !.bounds.x = snapToGrid(el.bounds.x + delta.x),
                                !.bounds.y = snapToGrid(el.bounds.y + delta.y)]
                ELSE el]]

resizeElement(s, id, newBounds) ==
    IF ~Has(s.elements, id) \/ Get(s.elements, id).locked THEN s
    ELSE [s EXCEPT !.elements = Put(s.elements,
            [Get(s.elements, id) EXCEPT !.bounds =
                Bounds(snapToGrid(newBounds.x), snapToGrid(newBounds.y),
                       Max2(MIN_SIZE, snapToGrid(newBounds.width)),
                       Max2(MIN_SIZE, snapToGrid(newBounds.height)))])]

ZValues(els) == {els[i].zIndex : i \in DOMAIN els}

SetZ(s, id, z) ==
    IF ~Has(s.elements, id) THEN s
    ELSE [s EXCEPT !.elements = Put(s.elements, [Get(s.elements, id) EXCEPT !.zIndex = z])]

\* Math.max(...zs, 0) and Math.min(...zs, 0): 0 takes part in both
bringToFrontAboveMax(s, id) == SetZ(saveToHistory(s), id, SetMax(ZValues(s.elements)) + 1)
bringToFront(s, id) == SetZ(saveToHistory(s), id, SetMax(ZValues(s.elements) \cup {0}) + 1)
sendToBack(s, id) == SetZ(saveToHistory(s), id, SetMin(ZValues(s.elements) \cup {0}) - 1)
bringForward(s, id) ==
    IF ~Has(s.elements, id) THEN saveToHistory(s)
    ELSE SetZ(saveToHistory(s), id, Get(s.elements, id).zIndex + 1)
sendBackward(s, id) ==
    IF ~Has(s.elements, id) THEN saveToHistory(s)
    ELSE SetZ(saveToHistory(s), id, Get(s.elements, id).zIndex - 1)

clearCanvas(s) ==
    [saveToHistory(s) EXCEPT !.elements = <<>>, !.rootIds = <<>>, !.selectedIds = <<>>]

importFromJSON(s, json) ==
    [saveToHistory(s) EXCEPT !.elements = json.elements, !.rootIds = json.rootIds,
                             !.selectedIds = <<>>]


\* ------------------------------------------------------ JSON serialization
\* The text JSON.stringify writes, as the tree of values JSON.parse reads back:
\* numbers, strings, booleans, null, arrays, and objects with their members in
\* key order.  Ids are strings; a parentId of null is written as null.
JsonNumber(n) == [t |-> "number", v |-> n]
JsonString(s) == [t |-> "string", v |-> s]
JsonBoolean(b) == [t |-> "boolean", v |-> b]
JsonNull == [t |-> "null"]
JsonArray(items) == [t |-> "array", items |-> items]
JsonObject(members) == [t |-> "object", members |-> members]
Member(key, value) == [key |-> key, value |-> value]

\* obj[key] of a parsed object; null stands for a missing member
JsonGet(obj, key) ==
    IF \E i \in DOMAIN obj.members : obj.members[i].key = key
    THEN obj.members[CHOOSE i \in DOMAIN obj.members : obj.members[i].key = key].value
    ELSE JsonNull

StringifyIds(ids) == JsonArray([i \in DOMAIN ids |-> JsonString(ids[i])])

StringifyParentDropped(parentId) == JsonNull
StringifyParent(parentId) == IF parentId = NoId THEN JsonNull ELSE JsonString(parentId)

StringifyBounds(b) ==
    JsonObject(<< Member("x", JsonNumber(b.x)), Member("y", JsonNumber(b.y)),
                  Member("width", JsonNumber(b.width)),
                  Member("height", JsonNumber(b.height)) >>)

StringifyElement(el) ==
    JsonObject(<< Member("id", JsonString(el.id)),
                  Member("type", JsonString(el.type)),
                  Member("bounds", StringifyBounds(el.bounds)),
                  Member("zIndex", JsonNumber(el.zIndex)),
                  Member("locked", JsonBoolean(el.locked)),
                  Member("parentId", StringifyParent(el.parentId)),
                  Member("childIds", StringifyIds(el.childIds)) >>)

\* JSON.stringify({ elements, rootIds })
JsonStringify(elements, rootIds) ==
    JsonObject(<< Member("elements",
                         JsonObject([i \in DOMAIN elements |->
                                        Member(elements[i].id, StringifyElement(elements[i]))])),
                  Member("rootIds", StringifyIds(rootIds)) >>)

ParseIds(json) == [i \in DOMAIN json.items |-> json.items[i].v]
ParseParent(json) == IF json.t = "null" THEN NoId ELSE json.v
ParseBounds(json) ==
    Bounds(JsonGet(json, "x").v, JsonGet(json, "y").v,
           JsonGet(json, "width").v, JsonGet(json, "height").v)
ParseElement(json) ==
    [id |-> JsonGet(json, "id").v,
     type |-> JsonGet(json, "type").v,
     bounds |-> ParseBounds(JsonGet(json, "bounds")),
     zIndex |-> JsonGet(json, "zIndex").v,
     locked |-> JsonGet(json, "locked").v,
     parentId |-> ParseParent(JsonGet(json, "parentId")),
     childIds |-> ParseIds(JsonGet(json, "childIds"))]

\* JSON.parse(saved), read as { elements, rootIds }
JsonParse(json) ==
    LET els == JsonGet(json, "elements")
    IN  [elements |-> IF els.t = "object"
                      THEN [i \in DOMAIN els.members |-> ParseElement(els.members[i].value)]
                      ELSE <<>>,
         rootIds |-> IF JsonGet(json, "rootIds").t = "array"
                     THEN ParseIds(JsonGet(json, "rootIds")) ELSE <<>>]

\* localStorage.setItem(STORAGE_KEY, JSON.stringify({ elements, rootIds }))
saveCanvasToStorage(elements, rootIds) == <<JsonStringify(elements, rootIds)>>

\* the stored scene, or <<>> (null) when nothing usable is stored; an empty
\* object and an empty array are truthy
loadCanvasFromStorage(saved) ==
    IF saved = <<>> THEN <<>>
    ELSE IF JsonGet(saved[1], "elements").t # "null" /\ JsonGet(saved[1], "rootIds").t # "null"
         THEN <<JsonParse(saved[1])>>
         ELSE <<>>

\* elements: saved?.elements ?? {}, rootIds: saved?.rootIds ?? []
SceneOrEmpty(loaded) ==
    IF loaded = <<>> THEN [elements |-> <<>>, rootIds |-> <<>>] ELSE loaded[1]

exportAsJSON(s) == [elements |-> s.elements, rootIds |-> s.rootIds, version |-> "1.0"]

\* --------------------------------------------------------------- alignment
\* els = ids.map(id => prev.elements[id]).filter(Boolean)
SelectedEls(s) == {Get(s.elements, id) : id \in Range(s.selectedIds) \cap Ids(s.elements)}
CountSelectedEls(s) ==
    Len(SelectSeq(s.selectedIds, LAMBDA id : Has(s.elements, id)))

MinX(els) == SetMin({e.bounds.x : e \in els})
MaxRight(els) == SetMax({e.bounds.x + e.bounds.width : e \in els})
MinY(els) == SetMin({e.bounds.y : e \in els})
MaxBottom(els) == SetMax({e.bounds.y + e.bounds.height : e \in els})

\* twice the coordinate alignElements writes; the coordinate is exact when
\* this is even ((minX + maxX) / 2 - width / 2 is computed in floating point)
AlignedTwice(el, axis, els) ==
    CASE axis = "left" -> 2 * MinX(els)
      [] axis = "center-h" -> MinX(els) + MaxRight(els) - el.bounds.width
      [] axis = "right" -> 2 * (MaxRight(els) - el.bounds.width)
      [] axis = "top" -> 2 * MinY(els)
      [] axis = "center-v" -> MinY(els) + MaxBottom(els) - el.bounds.height
      [] axis = "bottom" -> 2 * (MaxBottom(els) - el.bounds.height)

AlignOneSwapAxes(el, axis, els) ==
    IF axis \in {"left", "center-h", "right"}
    THEN [el EXCEPT !.bounds.y = AlignedTwice(el, axis, els) \div 2]
    ELSE [el EXCEPT !.bounds.x = AlignedTwice(el, axis, els) \div 2]
AlignOne(el, axis, els) ==
    IF axis \in {"left", "center-h", "right"}
    THEN [el EXCEPT !.bounds.x = AlignedTwice(el, axis, els) \div 2]
    ELSE [el EXCEPT !.bounds.y = AlignedTwice(el, axis, els) \div 2]

\* the updater reads updated[id].bounds for every id of the selection:
\* an id without an element raises a TypeError
alignThrows(s) ==
    /\ Len(s.selectedIds) >= 2
    /\ CountSelectedEls(s) >= 2
    /\ \E id \in Range(s.selectedIds) : ~Has(s.elements, id)

\* the model keeps integer coordinates: a centre alignment is taken when its
\* result is an integer
AlignExact(s, axis) ==
    \A e \in SelectedEls(s) : AlignedTwice(e, axis, SelectedEls(s)) % 2 = 0

alignElements(s, axis) ==
    IF Len(s.selectedIds) < 2 THEN s
    ELSE LET h == saveToHistory(s)
             els == SelectedEls(h)
         IN  IF CountSelectedEls(h) < 2 THEN h
             ELSE [h EXCEPT !.elements =
                     [i \in DOMAIN h.elements |->
                         IF Includes(h.selectedIds, h.elements[i].id)
                         THEN AlignOne(h.elements[i], axis, els)
                         ELSE h.elements[i]]]

\* ------------------------------------------------------------ distribution
DistributeAxes == {"horizontal", "vertical"}

\* the coordinate and the extent of an element along the axis
Along(el, axis) == IF axis = "horizontal" THEN el.bounds.x ELSE el.bounds.y
Extent(el, axis) == IF axis = "horizontal" THEN el.bounds.width ELSE el.bounds.height

\* els = ids.map(id => prev.elements[id]).filter(Boolean), in selection order
SelectedSeq(s) ==
    LET ids == SelectSeq(s.selectedIds, LAMBDA id : Has(s.elements, id))
    IN  [i \in DOMAIN ids |-> Get(s.elements, ids[i])]

\* [...els].sort((a, b) => a.bounds.x - b.bounds.x): Array.prototype.sort is
\* stable, elements with equal coordinates keep their order
InsertAlong(sorted, el, axis) ==
    LET k == Cardinality({i \in DOMAIN sorted : Along(sorted[i], axis) <= Along(el, axis)})
    IN  SubSeq(sorted, 1, k) \o <<el>> \o SubSeq(sorted, k + 1, Len(sorted))

RECURSIVE SortInto(_, _, _)
SortInto(sorted, els, axis) ==
    IF Len(els) = 0 THEN sorted
    ELSE SortInto(InsertAlong(sorted, Head(els), axis), Tail(els), axis)

SortedAlong(els, axis) == SortInto(<<>>, els, axis)

RECURSIVE SumExtent(_, _)
SumExtent(els, axis) ==
    IF Len(els) = 0 THEN 0 ELSE Extent(Head(els), axis) + SumExtent(Tail(els), axis)

\* totalSpace - totalWidth, the numerator of gap
Slack(sorted, axis) ==
    LET first == sorted[1]
        last == sorted[Len(sorted)]
    IN  (Along(last, axis) + Extent(last, axis)) - Along(first, axis) - SumExtent(sorted, axis)

\* the model keeps integer coordinates: a distribution is taken when gap,
\* (totalSpace - totalWidth) / (sorted.length - 1), is an integer
DistributeExact(s, axis) ==
    LET sorted == SortedAlong(SelectedSeq(s), axis)
    IN  Len(sorted) >= 3 => Slack(sorted, axis) % (Len(sorted) - 1) = 0

\* the running coordinate x when sorted.forEach reaches the i-th element
PlaceSkipGap(sorted, i, axis, gap) ==
    Along(sorted[1], axis) + SumExtent(SubSeq(sorted, 1, i - 1), axis)
Place(sorted, i, axis, gap) ==
    Along(sorted[1], axis) + SumExtent(SubSeq(sorted, 1, i - 1), axis) + (i - 1) * gap

distributeElements(s, axis) ==
    IF Len(s.selectedIds) < 3 THEN s
    ELSE LET h == saveToHistory(s)
             sorted == SortedAlong(SelectedSeq(h), axis)
             gap == Slack(sorted, axis) \div (Len(sorted) - 1)
             placed == [i \in DOMAIN sorted |->
                          IF axis = "horizontal"
                          THEN [sorted[i] EXCEPT !.bounds.x = Place(sorted, i, axis, gap)]
                          ELSE [sorted[i] EXCEPT !.bounds.y = Place(sorted, i, axis, gap)]]
         IN  IF Len(sorted) < 3 THEN h
             ELSE [h EXCEPT !.elements =
                     [i \in DOMAIN h.elements |->
                         IF \E j \in DOMAIN placed : placed[j].id = h.elements[i].id
                         THEN placed[CHOOSE j \in DOMAIN placed :
                                         placed[j].id = h.elements[i].id]
                         ELSE h.elements[i]]]

\* ---------------------------------------------------------------- snap guides
SNAP_THRESHOLD == 8

\* the six edges computeSnapGuides reads off a rectangle; widths and heights
\* are even here, so that the centres are whole numbers
Edges(b) ==
    [left |-> b.x, right |-> b.x + b.width, centerX |-> b.x + (b.width \div 2),
     top |-> b.y, bottom |-> b.y + b.height, centerY |-> b.y + (b.height \div 2)]

\* for (const [moving, target] of pairs) { if (Math.abs(moving - target) <
\* SNAP_THRESHOLD) { ...; break; } }: the index of the first such pair, or 0
FirstMatch(pairs) ==
    LET hits == {i \in DOMAIN pairs : Abs(pairs[i][1] - pairs[i][2]) < SNAP_THRESHOLD}
    IN  IF hits = {} THEN 0 ELSE CHOOSE i \in hits : \A j \in hits : i <= j

\* the body of the loop over rootIds for one other element with bounds ob:
\* acc is [snapped, guides], edges are the edges of movingBounds
SnapAgainst(acc, edges, ob) ==
    LET otherEdges == Edges(ob)
        vPairs == << <<edges.left, otherEdges.left>>, <<edges.left, otherEdges.right>>,
                     <<edges.right, otherEdges.left>>, <<edges.right, otherEdges.right>>,
                     <<edges.centerX, otherEdges.centerX>> >>
        v == FirstMatch(vPairs)
        sv == IF v = 0 THEN acc.snapped
              ELSE [acc.snapped EXCEPT !.x = @ + (vPairs[v][2] - vPairs[v][1])]
        gv == IF v = 0 THEN acc.guides
              ELSE Append(acc.guides,
                          [type |-> "vertical", position |-> vPairs[v][2],
                           start |-> Min2(sv.y, ob.y),
                           end |-> Max2(sv.y + sv.height, ob.y + ob.height)])
        hPairs == << <<edges.top, otherEdges.top>>, <<edges.top, otherEdges.bottom>>,
                     <<edges.bottom, otherEdges.top>>, <<edges.bottom, otherEdges.bottom>>,
                     <<edges.centerY, otherEdges.centerY>> >>
        h == FirstMatch(hPairs)
        sh == IF h = 0 THEN sv
              ELSE [sv EXCEPT !.y = @ + (hPairs[h][2] - hPairs[h][1])]
        gh == IF h = 0 THEN gv
              ELSE Append(gv,
                          [type |-> "horizontal", position |-> hPairs[h][2],
                           start |-> Min2(sh.x, ob.x),
                           end |-> Max2(sh.x + sh.width, ob.x + ob.width)])
    IN  [snapped |-> sh, guides |-> gh]

RECURSIVE SnapLoop(_, _, _, _, _)
SnapLoop(s, ids, movingId, edges, acc) ==
    IF Len(ids) = 0 THEN acc
    ELSE LET id == Head(ids)
         IN  IF id = movingId \/ Includes(s.selectedIds, id) \/ ~Has(s.elements, id)
             THEN SnapLoop(s, Tail(ids), movingId, edges, acc)
             ELSE SnapLoop(s, Tail(ids), movingId, edges,
                           SnapAgainst(acc, edges, Get(s.elements, id).bounds))

\* computeSnapGuides(movingId, movingBounds) over the hook's elements, rootIds
\* and selectedIds
computeSnapGuides(s, movingId, movingBounds) ==
    LET r == SnapLoop(s, s.rootIds, movingId, Edges(movingBounds),
                      [snapped |-> movingBounds, guides |-> <<>>])
    IN  [guides |-> r.guides, snappedBounds |-> r.snapped]

\* ------------------------------------------------- canvas store: the hierarchy
\* an element of the store, as far as the hierarchy goes
StoreEl(id, parentId) == [id |-> id, parentId |-> parentId, childrenIds |-> <<>>]

\* the store's addElement(type, x, y, parentId) with the id uuidv4() returned
storeAddElement(s, id, parentId) ==
    LET newElements == Put(s.elements, StoreEl(id, parentId))
    IN  IF parentId # NoId /\ Has(s.elements, parentId)
        THEN [s EXCEPT !.elements =
                 Put(newElements,
                     [Get(s.elements, parentId) EXCEPT !.childrenIds = Append(@, id)])]
        ELSE [s EXCEPT !.elements = newElements,
                       !.rootElementIds = Append(@, id)]

\* the store's moveElement(id, newParentId)
storeMoveElement(s, id, newParentId) ==
    IF ~Has(s.elements, id) THEN s
    ELSE LET element == Get(s.elements, id)
             \* Remove from old parent
             e1 == IF element.parentId # NoId /\ Has(s.elements, element.parentId)
                   THEN Put(s.elements,
                            [Get(s.elements, element.parentId) EXCEPT
                                !.childrenIds = SelectSeq(@, LAMBDA cid : cid # id)])
                   ELSE s.elements
             \* Add to new parent
             e2 == IF newParentId # NoId /\ Has(e1, newParentId)
                   THEN Put(e1, [Get(e1, newParentId) EXCEPT
                                    !.childrenIds = Append(@, id)])
                   ELSE e1
             e3 == Put(e2, [element EXCEPT !.parentId = newParentId])
             newRootIds ==
                 IF element.parentId = NoId /\ newParentId # NoId
                 THEN SelectSeq(s.rootElementIds, LAMBDA rid : rid # id)
                 ELSE IF element.parentId # NoId /\ newParentId = NoId
                      THEN Append(s.rootElementIds, id)
                      ELSE s.rootElementIds
         IN  IF element.parentId = newParentId THEN s
             ELSE [elements |-> e3, rootElementIds |-> newRootIds]

\* the element with the given id and the elements above it, along parentId
RECURSIVE StoreAncestors(_, _, _)
StoreAncestors(els, id, fuel) ==
    IF fuel = 0 \/ id = NoId \/ ~Has(els, id) THEN {}
    ELSE {id} \cup StoreAncestors(els, Get(els, id).parentId, fuel - 1)

\* ------------------------------------------------- freehand canvas: useCanvas
\* prev.history.slice(0, prev.historyIndex + 1) followed by push(elements)
sketchPush(k, elements) ==
    LET newHistory == Append(SubSeq(k.history, 1, k.historyIndex + 1), elements)
    IN  [k EXCEPT !.elements = elements,
                  !.currentElement = <<>>,
                  !.history = newHistory,
                  !.historyIndex = Len(newHistory) - 1]

sketchSetTool(k, tool) == [k EXCEPT !.selectedTool = tool]

sketchStartDrawing(k, point) ==
    IF k.selectedTool = "select" THEN k
    ELSE [k EXCEPT !.isDrawing = TRUE,
                   !.made = @ + 1,
                   !.currentElement = << [id |-> k.made + 1, type |-> k.selectedTool,
                                          points |-> <<point>>] >>]

sketchContinueDrawing(k, point) ==
    IF ~k.isDrawing \/ k.currentElement = <<>> THEN k
    ELSE [k EXCEPT !.currentElement[1].points = Append(@, point)]

\* stopDrawing that appends to the whole history
sketchStopDrawingNoSlice(k) ==
    IF ~k.isDrawing \/ k.currentElement = <<>>
    THEN [k EXCEPT !.isDrawing = FALSE]
    ELSE LET newElements == Append(k.elements, k.currentElement[1])
             newHistory == Append(k.history, newElements)
         IN  [k EXCEPT !.isDrawing = FALSE,
                       !.elements = newElements,
                       !.currentElement = <<>>,
                       !.history = newHistory,
                       !.historyIndex = Len(newHistory) - 1]

sketchStopDrawing(k) ==
    IF ~k.isDrawing \/ k.currentElement = <<>>
    THEN [k EXCEPT !.isDrawing = FALSE]
    ELSE sketchPush([k EXCEPT !.isDrawing = FALSE], Append(k.elements, k.currentElement[1]))

sketchUndo(k) ==
    IF k.historyIndex <= 0 THEN k
    ELSE [k EXCEPT !.elements = k.history[k.historyIndex],
                   !.historyIndex = k.historyIndex - 1]

sketchRedo(k) ==
    IF k.historyIndex >= Len(k.history) - 1 THEN k
    ELSE [k EXCEPT !.elements = k.history[k.historyIndex + 2],
                   !.historyIndex = k.historyIndex + 1]

sketchClearCanvas(k) == sketchPush(k, <<>>)

sketchSetElements(k, elements) == sketchPush(k, elements)

\* ------------------------------------------------- sketch page: AI requests
\* s2cApi.extractTypography / s2cApi.generateUI is called: one more request in flight
issueRequest(a, kind) ==
    [a EXCEPT !.issued = @ + 1,
              !.inFlight = @ \cup {[id |-> a.issued + 1, kind |-> kind]}]

\* handleMoodBoardUpload up to its await
handleMoodBoardUpload(a) ==
    [issueRequest(a, "extract") EXCEPT !.isExtractingTypography = TRUE,
                                       !.activeTab = "typography"]

\* handleMoodBoardUpload after its await: the result of request req has arrived
extractSettled(a, req, outcome) ==
    [a EXCEPT !.inFlight = @ \ {req},
              !.typography = IF outcome = "data" THEN req.id ELSE @,
              !.isExtractingTypography = FALSE]

\* handleChatMessage up to its await
handleChatMessage(a) ==
    [issueRequest(a, "generate") EXCEPT !.isGeneratingUI = TRUE]

\* handleChatMessage after its await
generateSettled(a, req, outcome) ==
    [a EXCEPT !.inFlight = @ \ {req},
              !.generatedUI = IF outcome = "data" THEN req.id ELSE @,
              !.isGeneratingUI = FALSE]

\* -------------------------------------------------------------- view: zoom, pan
\* zoom is a fraction [n, d] in lowest terms with d > 0, so that the products
\* prev * 0.9, prev * 1.1, prev * 0.8 and prev * 1.25 are exact
RECURSIVE GCD(_, _)
GCD(a, b) == IF b = 0 THEN a ELSE GCD(b, a % b)

Fraction(n, d) ==
    LET g == GCD(Abs(n), d)
    IN  [n |-> n \div g, d |-> d \div g]

Times(r, n, d) == Fraction(r.n * n, r.d * d)
LessEq(a, b) == a.n * b.d <= b.n * a.d
MathMin(a, b) == IF LessEq(a, b) THEN a ELSE b
MathMax(a, b) == IF LessEq(a, b) THEN b ELSE a

One == Fraction(1, 1)
MIN_ZOOM == Fraction(1, 10)
MAX_ZOOM == Fraction(3, 1)

\* handleWheel with ctrl/meta: delta = deltaY > 0 ? 0.9 : 1.1
wheelZoom(prev, deltaY) ==
    MathMin(MAX_ZOOM, MathMax(MIN_ZOOM, Times(prev, IF deltaY > 0 THEN 9 ELSE 11, 10)))

\* the Zoom Out and Zoom In buttons
zoomOut(prev) == MathMax(MIN_ZOOM, Times(prev, 4, 5))
zoomInUnclamped(prev) == Times(prev, 5, 4)
zoomIn(prev) == MathMin(MAX_ZOOM, Times(prev, 5, 4))

\* the canvas store: zoom, panX, panY and their setters
InitialView == [zoom |-> One, panX |-> 0, panY |-> 0]
setZoom(st, z) == [st EXCEPT !.zoom = MathMax(MIN_ZOOM, MathMin(MAX_ZOOM, z))]
setPan(st, x, y) == [st EXCEPT !.panX = x, !.panY = y]
resetView(st) == [st EXCEPT !.zoom = One, !.panX = 0, !.panY = 0]

\* wheel deltas, the zoom values handed to setZoom, and client points of a pan drag
WheelDeltas == {-10, 10}
ZoomInputs == {Fraction(-1, 1), Fraction(1, 20), Fraction(1, 2), Fraction(5, 1)}
PanPos == {Position(0, 0), Position(10, -10)}

\* the tools of the toolbar taken in the runs on tools: two of them draw
DrawTools == {"select", "hand", "rectangle", "auto-layout-v"}

\* ------------------------------------------------------------------- state
VARIABLES
    state,          \* the hook's StructuredCanvasState
    activeTool,     \* the hook's activeTool
    isDrawing,      \* hook ref isDrawing
    drawStart,      \* hook ref drawStart: <<>> (null) or <<position>>
    nextId,         \* the next id generateId() returns
    panRef,         \* renderer ref: [active, startPos, startPan]
    dragRef,        \* renderer ref: [active, elementId, lastPos, accumDelta, rafId]
    resizeRef,      \* renderer ref: [active, elementId, handle, startPos, startBounds, rafId]
    marqueeRef,     \* renderer ref: [active, startPos, additive]
    marqueeBox,     \* renderer state: <<>> (null) or <<bounds>>
    drawStartRef,   \* renderer ref: <<>> (null) or <<position>>
    frames,         \* animation-frame callbacks requested and not yet run
    nextRaf,        \* the next handle requestAnimationFrame returns
    crashed,        \* an updater threw: the component tree is gone
    stepsLeft,      \* number of events the run may still take
    editsLeft,      \* number of key, toolbar, panel and hook-call events among them
    buttons,        \* number of mouse buttons held down
    buttonLimit,    \* number of mouse buttons the user of this run presses together
    lastOp,         \* the operation of the last step
    clean,          \* the drag or resize gesture in progress was not interleaved with other events
    before,         \* the elements map before the last operation (a gesture is one operation)
    touched,        \* ids the last operation wrote
    isSpacePressed, \* CanvasSection state: Space is held
    zoom,           \* renderer state zoom, a fraction [n, d]
    pan,            \* renderer state pan
    store,          \* the canvas store's view: [zoom, panX, panY]
    heldTool,       \* the tool that was active when Space went down
    snap,           \* the last call of computeSnapGuides: its arguments and its result
    storeScene,     \* the canvas store's elements and rootElementIds
    ai,             \* the sketch page's AI requests and what their responses set
    sketch          \* the state of the freehand canvas hook useCanvas

hookVars == <<state, activeTool, isDrawing, drawStart, nextId>>
rendererVars == <<panRef, dragRef, resizeRef, marqueeRef, marqueeBox, drawStartRef,
                  frames, nextRaf>>
traceVars == <<stepsLeft, editsLeft, buttons, buttonLimit, lastOp, clean, before, touched>>
viewVars == <<isSpacePressed, zoom, pan, store, heldTool>>
sideVars == <<snap, storeScene, ai, sketch>>
vars == <<state, activeTool, isDrawing, drawStart, nextId, panRef, dragRef, resizeRef,
          marqueeRef, marqueeBox, drawStartRef, frames, nextRaf, crashed,
          stepsLeft, editsLeft, buttons, buttonLimit, lastOp, clean, before, touched,
          isSpacePressed, zoom, pan, store, heldTool, snap, storeScene, ai, sketch>>

Origin == Position(0, 0)
IdleDrag == [active |-> FALSE, elementId |-> NoId, lastPos |-> Origin,
             accumDelta |-> Origin, rafId |-> 0]
IdleResize == [active |-> FALSE, elementId |-> NoId, handle |-> "", startPos |-> Origin,
               startBounds |-> Bounds(0, 0, 0, 0), rafId |-> 0]
IdleMarquee == [active |-> FALSE, startPos |-> Origin, additive |-> FALSE]
IdlePan == [active |-> FALSE, startPos |-> Origin, startPan |-> Origin]

InitRenderer ==
    /\ panRef = IdlePan
    /\ dragRef = IdleDrag
    /\ resizeRef = IdleResize
    /\ marqueeRef = IdleMarquee
    /\ marqueeBox = <<>>
    /\ drawStartRef = <<>>
    /\ frames = <<>>
    /\ nextRaf = 1

InitTrace ==
    /\ buttons = 0
    /\ buttonLimit = MaxButtons
    /\ lastOp = "init"
    /\ clean = FALSE
    /\ before = state.elements
    /\ touched = {}

\* useState(1), useState({ x: 0, y: 0 }), useState(false); the store's initial view
InitView ==
    /\ isSpacePressed = FALSE
    /\ zoom = One
    /\ pan = Origin
    /\ store = InitialView
    /\ heldTool = ""

\* computeSnapGuides has not been called
NoSnap == [movingId |-> NoId, movingBounds |-> Bounds(0, 0, 0, 0),
           guides |-> <<>>, snappedBounds |-> Bounds(0, 0, 0, 0)]

\* create<CanvasStore>: elements: {}, rootElementIds: []
InitialScene == [elements |-> <<>>, rootElementIds |-> <<>>]

\* the sketch page's useState calls: nothing extracted, nothing generated, no
\* request issued, the upload tab open; typography and generatedUI hold the
\* number of the request whose data they show, 0 for null
InitialPage ==
    [typography |-> 0, generatedUI |-> 0,
     isExtractingTypography |-> FALSE, isGeneratingUI |-> FALSE,
     activeTab |-> "upload", issued |-> 0, inFlight |-> {}]

\* useCanvas: useState({ elements: [], currentElement: null, selectedTool: 'pen',
\* history: [[]], historyIndex: 0 }) and useRef(false); made counts the ids
\* generateId() has handed out
InitialSketch ==
    [elements |-> <<>>, currentElement |-> <<>>, selectedTool |-> "pen",
     history |-> << <<>> >>, historyIndex |-> 0, isDrawing |-> FALSE, made |-> 0]

InitSide ==
    /\ snap = NoSnap
    /\ storeScene = InitialScene
    /\ ai = InitialPage
    /\ sketch = InitialSketch

\* useState(() => loadCanvasFromStorage() ...): the scene found in local storage
InitHook(saved) ==
    /\ state = InitialState(saved)
    /\ activeTool = "select"
    /\ isDrawing = FALSE
    /\ drawStart = <<>>
    /\ nextId = FirstFreshId
    /\ crashed = FALSE

Init ==
    /\ \E saved \in SavedScenes : InitHook(saved)
    /\ stepsLeft = MaxSteps
    /\ editsLeft = MaxEdits
    /\ InitRenderer
    /\ InitTrace
    /\ InitView
    /\ InitSide

\* a long session of imports, undo and redo on one stored scene
InitHistory ==
    /\ InitHook(MarqueeScene)
    /\ stepsLeft = MaxPushes
    /\ editsLeft = MaxPushes
    /\ InitRenderer
    /\ InitTrace
    /\ InitView
    /\ InitSide

\* a session that selects elements of a stored scene and arranges them
InitArrange ==
    /\ \E saved \in ArrangeScenes : InitHook(saved)
    /\ stepsLeft = MaxArrange
    /\ editsLeft = MaxEdits
    /\ InitRenderer
    /\ InitTrace
    /\ InitView
    /\ InitSide

\* an empty canvas, with room for an import, a re-stacking, undo and redo
InitPaint ==
    /\ InitHook(EmptyScene)
    /\ stepsLeft = MaxPaint
    /\ editsLeft = MaxPaintEdits
    /\ InitRenderer
    /\ InitTrace
    /\ InitView
    /\ InitSide

\* tools and gestures on an empty canvas and on a stored scene
InitTools ==
    /\ \E saved \in {EmptyScene, MarqueeScene} : InitHook(saved)
    /\ stepsLeft = MaxToolSteps
    /\ editsLeft = MaxToolEdits
    /\ InitRenderer
    /\ InitTrace
    /\ InitView
    /\ InitSide

\* direct calls on a stored scene of two or three elements
InitCalls ==
    /\ \E saved \in {MarqueeScene, DistributeScene} : InitHook(saved)
    /\ stepsLeft = MaxCallSteps
    /\ editsLeft = MaxCallEdits
    /\ InitRenderer
    /\ InitTrace
    /\ InitView
    /\ InitSide

\* a user who presses a second mouse button before releasing the first
InitChord ==
    /\ InitHook(MarqueeScene)
    /\ stepsLeft = MaxChordSteps
    /\ editsLeft = MaxChordEdits
    /\ InitRenderer
    /\ buttons = 0
    /\ buttonLimit = MaxChord
    /\ lastOp = "init"
    /\ clean = FALSE
    /\ before = state.elements
    /\ touched = {}
    /\ InitView
    /\ InitSide

\* elements of a stored scene are clicked and dragged past one another
InitSnap ==
    /\ InitHook(SnapScene)
    /\ stepsLeft = MaxSnapSteps
    /\ editsLeft = 0
    /\ InitRenderer
    /\ InitTrace
    /\ InitView
    /\ InitSide

\* the canvas store starts empty; elements are added and re-parented
InitStore ==
    /\ InitHook(EmptyScene)
    /\ stepsLeft = MaxStoreSteps
    /\ editsLeft = MaxStoreSteps
    /\ InitRenderer
    /\ InitTrace
    /\ InitView
    /\ InitSide

\* strokes are drawn on the freehand canvas, undone and redone
InitSketch ==
    /\ InitHook(EmptyScene)
    /\ stepsLeft = MaxSketchSteps
    /\ editsLeft = MaxSketchSteps
    /\ InitRenderer
    /\ InitTrace
    /\ InitView
    /\ InitSide

\* the sketch page: mood boards are uploaded, a sketch is loaded, messages are sent
InitPage ==
    /\ InitHook(EmptyScene)
    /\ stepsLeft = MaxPageSteps
    /\ editsLeft = MaxPageSteps
    /\ InitRenderer
    /\ InitTrace
    /\ InitView
    /\ InitSide

\* a session of zooming and panning
InitViewRun ==
    /\ InitHook(EmptyScene)
    /\ stepsLeft = MaxView
    /\ editsLeft = MaxViewEdits
    /\ InitRenderer
    /\ InitTrace
    /\ InitView
    /\ InitSide

\* bookkeeping of a step: one more event, and what it was
Step(name, ids) ==
    /\ ~crashed
    /\ stepsLeft > 0
    /\ stepsLeft' = stepsLeft - 1
    /\ lastOp' = name
    /\ touched' = ids

\* the kinds of event: a key press, toolbar or panel click or hook call;
\* a mouse button going down; a mouse button going up; a move or a frame
Edit == editsLeft > 0 /\ editsLeft' = editsLeft - 1 /\ UNCHANGED <<buttons, buttonLimit>>
Down == buttons < buttonLimit /\ buttons' = buttons + 1 /\ UNCHANGED <<editsLeft, buttonLimit>>
Up == buttons > 0 /\ buttons' = buttons - 1 /\ UNCHANGED <<editsLeft, buttonLimit>>
Motion == UNCHANGED <<editsLeft, buttons, buttonLimit>>

\* the operations that write the scene; a drag or resize gesture is one
\* operation, complete at endDrag / endResize
SingleOps == {"stopDrawing", "deleteSelected", "clearCanvas", "importFromJSON",
              "addElement", "updateElement", "toggleLocked",
              "bringToFront", "sendToBack", "bringForward", "sendBackward"}
             \cup AlignAxes \cup DistributeAxes
GestureEnds == {"endDrag", "endResize"}
AfterSceneOp == lastOp \in SingleOps \/ (lastOp \in GestureEnds /\ clean)

\* an operation that starts here: remember the elements it found
Fresh == before' = state.elements /\ clean' = FALSE
\* a drag or resize gesture starts here
Begin == before' = state.elements /\ clean' = TRUE
\* a step of the gesture begun at startDrag / startResize
Continue == UNCHANGED <<before, clean>>
\* an event that is no part of an operation on the scene
Aside == UNCHANGED before /\ clean' = FALSE


Ok == crashed' = FALSE

\* ------------------------------------------------ toolbar, keys, hook calls
\* the toolbar's onToolChange and the v/h/f/r keys
SetActiveTool(tool) ==
    /\ Edit
    /\ tool # activeTool
    /\ Step("setActiveTool", {}) /\ Aside /\ Ok
    /\ activeTool' = tool
    /\ UNCHANGED <<state, isDrawing, drawStart, nextId>>
    /\ UNCHANGED rendererVars
    /\ UNCHANGED viewVars
    /\ UNCHANGED sideVars

\* Delete / Backspace with a selection, and the toolbar's delete button
DeleteSelected ==
    /\ Edit
    /\ Len(state.selectedIds) > 0
    /\ Step("deleteSelected", Range(state.selectedIds)) /\ Fresh /\ Ok
    /\ state' = deleteSelected(state)
    /\ UNCHANGED <<activeTool, isDrawing, drawStart, nextId>>
    /\ UNCHANGED rendererVars
    /\ UNCHANGED viewVars
    /\ UNCHANGED sideVars

Undo ==
    /\ Edit
    /\ Step(IF AfterSceneOp THEN "undoOp" ELSE "undo", {}) /\ Fresh /\ Ok
    /\ state' = undo(state)
    /\ UNCHANGED <<activeTool, isDrawing, drawStart, nextId>>
    /\ UNCHANGED rendererVars
    /\ UNCHANGED viewVars
    /\ UNCHANGED sideVars

Redo ==
    /\ Edit
    /\ Step("redo", {}) /\ Fresh /\ Ok
    /\ state' = redo(state)
    /\ UNCHANGED <<activeTool, isDrawing, drawStart, nextId>>
    /\ UNCHANGED rendererVars
    /\ UNCHANGED viewVars
    /\ UNCHANGED sideVars

ClearCanvas ==
    /\ Edit
    /\ Step("clearCanvas", Ids(state.elements)) /\ Fresh /\ Ok
    /\ state' = clearCanvas(state)
    /\ UNCHANGED <<activeTool, isDrawing, drawStart, nextId>>
    /\ UNCHANGED rendererVars
    /\ UNCHANGED viewVars
    /\ UNCHANGED sideVars

ImportFromJSON(json) ==
    /\ Edit
    /\ Step("importFromJSON", Ids(json.elements)) /\ Fresh /\ Ok
    /\ state' = importFromJSON(state, json)
    /\ UNCHANGED <<activeTool, isDrawing, drawStart, nextId>>
    /\ UNCHANGED rendererVars
    /\ UNCHANGED viewVars
    /\ UNCHANGED sideVars

\* importFromJSON(exportAsJSON()): the exported scene is handed back
ImportExported ==
    /\ Edit
    /\ Step("importExported", Ids(state.elements)) /\ Fresh /\ Ok
    /\ state' = importFromJSON(state, exportAsJSON(state))
    /\ UNCHANGED <<activeTool, isDrawing, drawStart, nextId>>
    /\ UNCHANGED rendererVars
    /\ UNCHANGED viewVars
    /\ UNCHANGED sideVars

\* the page is loaded again: the effect has stored the scene on every change,
\* and the new mount starts from what loadCanvasFromStorage reads
Reload ==
    /\ editsLeft > 0 /\ editsLeft' = editsLeft - 1
    /\ buttons' = 0
    /\ UNCHANGED buttonLimit
    /\ Step("reload", Ids(state.elements)) /\ Fresh /\ Ok
    /\ state' = InitialState(SceneOrEmpty(loadCanvasFromStorage(
                     saveCanvasToStorage(state.elements, state.rootIds))))
    /\ activeTool' = "select"
    /\ isDrawing' = FALSE
    /\ drawStart' = <<>>
    /\ panRef' = IdlePan
    /\ dragRef' = IdleDrag
    /\ resizeRef' = IdleResize
    /\ marqueeRef' = IdleMarquee
    /\ marqueeBox' = <<>>
    /\ drawStartRef' = <<>>
    /\ frames' = <<>>
    /\ isSpacePressed' = FALSE
    /\ zoom' = One
    /\ pan' = Origin
    /\ store' = InitialView
    /\ heldTool' = ""
    /\ snap' = NoSnap
    /\ storeScene' = InitialScene
    /\ ai' = InitialPage
    /\ sketch' = InitialSketch
    /\ UNCHANGED <<nextId, nextRaf>>

\* addElement called with an element that names a parent (the hook exports it)
AddChildElement(parent) ==
    /\ Edit
    /\ Has(state.elements, parent)
    /\ Step("addElement", {nextId}) /\ Fresh /\ Ok
    /\ state' = addElement(state,
          El(nextId, "text", Bounds(20, 20, 40, 20), getNextZIndex(state.elements),
             parent, <<>>))
    /\ nextId' = nextId + 1
    /\ UNCHANGED <<activeTool, isDrawing, drawStart>>
    /\ UNCHANGED rendererVars
    /\ UNCHANGED viewVars
    /\ UNCHANGED sideVars

\* ----------------------------------------------------------- property panel
\* the panel edits selectedElements[0] when exactly one selected id has an element
PanelShowsOne == CountSelectedEls(state) = 1
PanelElement == Get(state.elements,
                    Head(SelectSeq(state.selectedIds, LAMBDA id : Has(state.elements, id))))

PanelValues == {24}
BoundsKeys == {"x", "y", "width", "height"}

\* updateBounds(key, value): { bounds: { ...element.bounds, [key]: value } }
UpdateBounds(key, value) ==
    /\ Edit
    /\ PanelShowsOne
    /\ PanelElement.bounds[key] # value
    /\ Step("updateElement", {PanelElement.id}) /\ Fresh /\ Ok
    /\ state' = updateElement(state, PanelElement.id,
                    [bounds |-> [PanelElement.bounds EXCEPT ![key] = value]])
    /\ UNCHANGED <<activeTool, isDrawing, drawStart, nextId>>
    /\ UNCHANGED rendererVars
    /\ UNCHANGED viewVars
    /\ UNCHANGED sideVars

\* the lock button: { locked: !element.locked }
ToggleLocked ==
    /\ Edit
    /\ PanelShowsOne
    /\ Step("toggleLocked", {PanelElement.id}) /\ Fresh /\ Ok
    /\ state' = updateElement(state, PanelElement.id, [locked |-> ~PanelElement.locked])
    /\ UNCHANGED <<activeTool, isDrawing, drawStart, nextId>>
    /\ UNCHANGED rendererVars
    /\ UNCHANGED viewVars
    /\ UNCHANGED sideVars

ZOrderOps == {"bringToFront", "sendToBack", "bringForward", "sendBackward"}
ZOrder(op) ==
    /\ Edit
    /\ PanelShowsOne
    /\ Step(op, {PanelElement.id}) /\ Fresh /\ Ok
    /\ state' = CASE op = "bringToFront" -> bringToFront(state, PanelElement.id)
                  [] op = "sendToBack" -> sendToBack(state, PanelElement.id)
                  [] op = "bringForward" -> bringForward(state, PanelElement.id)
                  [] op = "sendBackward" -> sendBackward(state, PanelElement.id)
    /\ UNCHANGED <<activeTool, isDrawing, drawStart, nextId>>
    /\ UNCHANGED rendererVars
    /\ UNCHANGED viewVars
    /\ UNCHANGED sideVars

\* the align buttons of the multi-selection panel
AlignElements(axis) ==
    /\ Edit
    /\ CountSelectedEls(state) > 1
    /\ AlignExact(state, axis)
    /\ Step(axis, Range(state.selectedIds)) /\ Fresh
    /\ IF alignThrows(state)
       THEN crashed' = TRUE /\ UNCHANGED state
       ELSE crashed' = FALSE /\ state' = alignElements(state, axis)
    /\ UNCHANGED <<activeTool, isDrawing, drawStart, nextId>>
    /\ UNCHANGED rendererVars
    /\ UNCHANGED viewVars
    /\ UNCHANGED sideVars

\* the distribute buttons of the multi-selection panel, disabled below 3 elements
DistributeElements(axis) ==
    /\ Edit
    /\ CountSelectedEls(state) >= 3
    /\ DistributeExact(state, axis)
    /\ Step(axis, Range(state.selectedIds)) /\ Fresh /\ Ok
    /\ state' = distributeElements(state, axis)
    /\ UNCHANGED <<activeTool, isDrawing, drawStart, nextId>>
    /\ UNCHANGED rendererVars
    /\ UNCHANGED viewVars
    /\ UNCHANGED sideVars

\* ------------------------------------------------------- pointer: mouse down
\* elements the renderer draws (sortedRootElements): they take mouse events
Rendered == Range(state.rootIds) \cap Ids(state.elements)

\* .sort((a, b) => a.zIndex - b.zIndex): stable, ties keep the order they had
InsertByZ(sorted, el) ==
    LET k == Cardinality({i \in DOMAIN sorted : sorted[i].zIndex <= el.zIndex})
    IN  SubSeq(sorted, 1, k) \o <<el>> \o SubSeq(sorted, k + 1, Len(sorted))

RECURSIVE SortByZ(_, _)
SortByZ(sorted, els) ==
    IF Len(els) = 0 THEN sorted ELSE SortByZ(InsertByZ(sorted, Head(els)), Tail(els))

\* rootIds.map(id => elements[id]).filter(Boolean).sort(...): the paint order
sortedRootElements(s) ==
    LET present == SelectSeq(s.rootIds, LAMBDA id : Has(s.elements, id))
    IN  SortByZ(<<>>, [i \in DOMAIN present |-> Get(s.elements, present[i])])

\* where the pointer presses an element: just inside its top-left corner
GrabInset == 2
GrabPoint(b) == Position(b.x + GrabInset, b.y + GrabInset)

\* where the pointer presses a resize handle
HandlePoint(b, handle) ==
    Position(CASE handle \in {"top-left", "left", "bottom-left"} -> b.x
               [] handle \in {"top", "bottom"} -> b.x + (b.width \div 2)
               [] OTHER -> b.x + b.width,
             CASE handle \in {"top-left", "top", "top-right"} -> b.y
               [] handle \in {"left", "right"} -> b.y + (b.height \div 2)
               [] OTHER -> b.y + b.height)

\* handleMouseDown, first branch: hand tool, middle button or alt+click
MouseDownPan(client, panButton) ==
    /\ Down
    /\ activeTool = "hand" \/ panButton
    /\ Step("startPan", {}) /\ Aside /\ Ok
    /\ panRef' = [active |-> TRUE, startPos |-> client, startPan |-> pan]
    /\ UNCHANGED hookVars
    /\ UNCHANGED <<dragRef, resizeRef, marqueeRef, marqueeBox, drawStartRef, frames, nextRaf>>
    /\ UNCHANGED viewVars
    /\ UNCHANGED sideVars

\* handleMouseDown, select tool: a marquee starts on the empty canvas
MouseDownMarquee(pos, additive) ==
    /\ Down
    /\ activeTool = "select"
    /\ Step("startMarquee", {}) /\ Aside /\ Ok
    /\ marqueeRef' = [active |-> TRUE, startPos |-> pos, additive |-> additive]
    /\ state' = IF additive THEN state ELSE selectElement(state, NoId, FALSE)
    /\ UNCHANGED <<activeTool, isDrawing, drawStart, nextId>>
    /\ UNCHANGED <<panRef, dragRef, resizeRef, marqueeBox, drawStartRef, frames, nextRaf>>
    /\ UNCHANGED viewVars
    /\ UNCHANGED sideVars

\* handleMouseDown, a drawing tool: drawStartRef is set and startDrawing called
MouseDownDraw(pos) ==
    /\ Down
    /\ activeTool \notin {"hand", "select"}
    /\ Step("startDrawing", {}) /\ Aside /\ Ok
    /\ drawStartRef' = <<pos>>
    /\ isDrawing' = TRUE
    /\ drawStart' = <<pos>>
    /\ UNCHANGED <<state, activeTool, nextId>>
    /\ UNCHANGED <<panRef, dragRef, resizeRef, marqueeRef, marqueeBox, frames, nextRaf>>
    /\ UNCHANGED viewVars
    /\ UNCHANGED sideVars

\* CanvasElement.handleMouseDown, then the renderer's handleStartDrag
MouseDownElement(id, shiftKey) ==
    /\ Down
    /\ id \in Rendered
    /\ LET el == Get(state.elements, id)
           selected == selectElement(state, id, shiftKey)
       IN  IF el.locked
           THEN /\ Step("select", {}) /\ Aside /\ Ok
                /\ state' = selected
                /\ UNCHANGED dragRef
           ELSE /\ Step("startDrag", {}) /\ Begin /\ Ok
                /\ state' = saveToHistory(selected)
                /\ dragRef' = [active |-> TRUE, elementId |-> id,
                               lastPos |-> GrabPoint(el.bounds),
                               accumDelta |-> Origin, rafId |-> 0]
    /\ UNCHANGED <<activeTool, isDrawing, drawStart, nextId>>
    /\ UNCHANGED <<panRef, resizeRef, marqueeRef, marqueeBox, drawStartRef, frames, nextRaf>>
    /\ UNCHANGED viewVars
    /\ UNCHANGED sideVars

\* CanvasElement.handleResizeMouseDown, then the renderer's handleStartResize;
\* handles are drawn on a selected, unlocked element
MouseDownHandle(id, handle) ==
    /\ Down
    /\ id \in Rendered
    /\ Includes(state.selectedIds, id)
    /\ ~Get(state.elements, id).locked
    /\ Step("startResize", {}) /\ Begin /\ Ok
    /\ state' = saveToHistory(state)
    /\ resizeRef' = [active |-> TRUE, elementId |-> id, handle |-> handle,
                     startPos |-> HandlePoint(Get(state.elements, id).bounds, handle),
                     startBounds |-> Get(state.elements, id).bounds, rafId |-> 0]
    /\ UNCHANGED <<activeTool, isDrawing, drawStart, nextId>>
    /\ UNCHANGED <<panRef, dragRef, marqueeRef, marqueeBox, drawStartRef, frames, nextRaf>>
    /\ UNCHANGED viewVars
    /\ UNCHANGED sideVars

\* ------------------------------------------------------- pointer: mouse move
\* the bounds the resize branch of handleMove proposes
ResizeBounds(sb, handle, dx, dy) ==
    CASE handle = "top-left" ->
            Bounds(snapToGrid(sb.x + dx), snapToGrid(sb.y + dy),
                   Max2(MIN_SIZE, sb.width - dx), Max2(MIN_SIZE, sb.height - dy))
      [] handle = "top" ->
            Bounds(sb.x, snapToGrid(sb.y + dy), sb.width, Max2(MIN_SIZE, sb.height - dy))
      [] handle = "top-right" ->
            Bounds(sb.x, snapToGrid(sb.y + dy),
                   Max2(MIN_SIZE, sb.width + dx), Max2(MIN_SIZE, sb.height - dy))
      [] handle = "right" ->
            Bounds(sb.x, sb.y, Max2(MIN_SIZE, snapToGrid(sb.width + dx)), sb.height)
      [] handle = "bottom-right" ->
            Bounds(sb.x, sb.y, Max2(MIN_SIZE, snapToGrid(sb.width + dx)),
                   Max2(MIN_SIZE, snapToGrid(sb.height + dy)))
      [] handle = "bottom" ->
            Bounds(sb.x, sb.y, sb.width, Max2(MIN_SIZE, snapToGrid(sb.height + dy)))
      [] handle = "bottom-left" ->
            Bounds(snapToGrid(sb.x + dx), sb.y, Max2(MIN_SIZE, sb.width - dx),
                   Max2(MIN_SIZE, snapToGrid(sb.height + dy)))
      [] handle = "left" ->
            Bounds(snapToGrid(sb.x + dx), sb.y, Max2(MIN_SIZE, sb.width - dx), sb.height)
      [] OTHER -> sb

\* the marquee rectangle between the start and the pointer
BoxBetween(a, b) ==
    Bounds(Min2(a.x, b.x), Min2(a.y, b.y), Abs(b.x - a.x), Abs(b.y - a.y))

\* handleMove, drag branch
MouseMoveDrag(pos) ==
    /\ Motion
    /\ ~panRef.active
    /\ dragRef.active /\ dragRef.elementId # NoId
    /\ pos # dragRef.lastPos
    /\ Step("dragMove", {}) /\ Continue /\ Ok
    /\ dragRef' = [dragRef EXCEPT
                     !.lastPos = pos,
                     !.accumDelta = Position(dragRef.accumDelta.x + pos.x - dragRef.lastPos.x,
                                             dragRef.accumDelta.y + pos.y - dragRef.lastPos.y),
                     !.rafId = IF dragRef.rafId = 0 THEN nextRaf ELSE dragRef.rafId]
    /\ IF dragRef.rafId = 0
       THEN /\ frames' = Append(frames, [id |-> nextRaf, kind |-> "drag",
                                         bounds |-> Bounds(0, 0, 0, 0)])
            /\ nextRaf' = nextRaf + 1
       ELSE UNCHANGED <<frames, nextRaf>>
    /\ UNCHANGED hookVars
    /\ UNCHANGED <<panRef, resizeRef, marqueeRef, marqueeBox, drawStartRef>>
    /\ UNCHANGED viewVars
    /\ UNCHANGED sideVars

\* handleMove, resize branch: the proposed bounds are kept only when no frame is pending
MouseMoveResize(pos) ==
    /\ Motion
    /\ ~panRef.active
    /\ ~(dragRef.active /\ dragRef.elementId # NoId)
    /\ resizeRef.active /\ resizeRef.elementId # NoId /\ resizeRef.handle # ""
    /\ resizeRef.rafId = 0
    /\ Step("resizeMove", {}) /\ Continue /\ Ok
    /\ frames' = Append(frames,
          [id |-> nextRaf, kind |-> "resize",
           bounds |-> ResizeBounds(resizeRef.startBounds, resizeRef.handle,
                                   pos.x - resizeRef.startPos.x,
                                   pos.y - resizeRef.startPos.y)])
    /\ nextRaf' = nextRaf + 1
    /\ resizeRef' = [resizeRef EXCEPT !.rafId = nextRaf]
    /\ UNCHANGED hookVars
    /\ UNCHANGED <<panRef, dragRef, marqueeRef, marqueeBox, drawStartRef>>
    /\ UNCHANGED viewVars
    /\ UNCHANGED sideVars

\* handleMove, marquee branch
MouseMoveMarquee(pos) ==
    /\ Motion
    /\ ~panRef.active
    /\ ~(dragRef.active /\ dragRef.elementId # NoId)
    /\ ~(resizeRef.active /\ resizeRef.elementId # NoId /\ resizeRef.handle # "")
    /\ marqueeRef.active
    /\ marqueeBox # <<BoxBetween(marqueeRef.startPos, pos)>>
    /\ Step("marqueeMove", {}) /\ Aside /\ Ok
    /\ marqueeBox' = <<BoxBetween(marqueeRef.startPos, pos)>>
    /\ UNCHANGED hookVars
    /\ UNCHANGED <<panRef, dragRef, resizeRef, marqueeRef, drawStartRef, frames, nextRaf>>
    /\ UNCHANGED viewVars
    /\ UNCHANGED sideVars


\* ------------------------------------------------- animation-frame callbacks
SnapDelta(delta) == Position(snapToGrid(delta.x), snapToGrid(delta.y))

\* one callback applied to [state, dragRef, resizeRef, touched]
RunCallback(cb, c) ==
    IF cb.kind = "drag"
    THEN [c EXCEPT
            !.state = moveElement(c.state, c.dragRef.elementId, SnapDelta(c.dragRef.accumDelta)),
            !.touched = c.touched \cup MovedIds(c.state, c.dragRef.elementId),
            !.dragRef = [c.dragRef EXCEPT !.rafId = 0, !.accumDelta = Origin]]
    ELSE [c EXCEPT
            !.state = resizeElement(c.state, c.resizeRef.elementId, cb.bounds),
            !.touched = c.touched \cup
                 {id \in {c.resizeRef.elementId} :
                     Has(c.state.elements, id) /\ ~Get(c.state.elements, id).locked},
            !.resizeRef = [c.resizeRef EXCEPT !.rafId = 0]]

RECURSIVE RunCallbacks(_, _)
RunCallbacks(cbs, c) ==
    IF Len(cbs) = 0 THEN c ELSE RunCallbacks(Tail(cbs), RunCallback(Head(cbs), c))

\* the browser runs every requested callback at the next frame, in request order
AnimationFrame ==
    /\ Motion
    /\ Len(frames) > 0
    /\ LET c == RunCallbacks(frames, [state |-> state, dragRef |-> dragRef,
                                      resizeRef |-> resizeRef, touched |-> {}])
       IN  /\ Step(IF \E i \in DOMAIN frames : frames[i].kind = "drag"
                   THEN "drag" ELSE "resize", c.touched)
           /\ state' = c.state
           /\ dragRef' = c.dragRef
           /\ resizeRef' = c.resizeRef
    /\ Continue /\ Ok
    /\ frames' = <<>>
    /\ UNCHANGED <<activeTool, isDrawing, drawStart, nextId>>
    /\ UNCHANGED <<panRef, marqueeRef, marqueeBox, drawStartRef, nextRaf>>
    /\ UNCHANGED viewVars
    /\ UNCHANGED sideVars

\* cancelAnimationFrame(id)
Cancel(fs, id) == SelectSeq(fs, LAMBDA f : f.id # id)

\* --------------------------------------------------------- pointer: mouse up
MouseUpPan ==
    /\ Up
    /\ panRef.active
    /\ Step("endPan", {}) /\ Aside /\ Ok
    /\ panRef' = [panRef EXCEPT !.active = FALSE]
    /\ UNCHANGED hookVars
    /\ UNCHANGED <<dragRef, resizeRef, marqueeRef, marqueeBox, drawStartRef, frames, nextRaf>>
    /\ UNCHANGED viewVars
    /\ UNCHANGED sideVars

\* handleUp, drag branch: a pending frame is cancelled and its delta flushed
MouseUpDrag ==
    /\ Up
    /\ ~panRef.active
    /\ dragRef.active
    /\ LET flush == dragRef.rafId # 0 /\ dragRef.accumDelta # Origin
       IN  /\ Step("endDrag", IF flush THEN MovedIds(state, dragRef.elementId) ELSE {})
           /\ state' = IF flush
                       THEN moveElement(state, dragRef.elementId, SnapDelta(dragRef.accumDelta))
                       ELSE state
    /\ Continue /\ Ok
    /\ frames' = IF dragRef.rafId # 0 THEN Cancel(frames, dragRef.rafId) ELSE frames
    /\ dragRef' = IdleDrag
    /\ UNCHANGED <<activeTool, isDrawing, drawStart, nextId>>
    /\ UNCHANGED <<panRef, resizeRef, marqueeRef, marqueeBox, drawStartRef, nextRaf>>
    /\ UNCHANGED viewVars
    /\ UNCHANGED sideVars

\* handleUp, resize branch: a pending frame is cancelled
MouseUpResize ==
    /\ Up
    /\ ~panRef.active
    /\ ~dragRef.active
    /\ resizeRef.active
    /\ Step("endResize", {}) /\ Continue /\ Ok
    /\ frames' = IF resizeRef.rafId # 0 THEN Cancel(frames, resizeRef.rafId) ELSE frames
    /\ resizeRef' = IdleResize
    /\ UNCHANGED hookVars
    /\ UNCHANGED <<panRef, dragRef, marqueeRef, marqueeBox, drawStartRef, nextRaf>>
    /\ UNCHANGED viewVars
    /\ UNCHANGED sideVars

\* the overlap test of the marquee
IntersectsStrict(b, m) ==
    ~(b.x + b.width <= m.x \/ b.x >= m.x + m.width \/
      b.y + b.height <= m.y \/ b.y >= m.y + m.height)
Intersects(b, m) ==
    ~(b.x + b.width < m.x \/ b.x > m.x + m.width \/
      b.y + b.height < m.y \/ b.y > m.y + m.height)

\* rootIds.forEach(id => ... onSelect(id, true)): one selectElement per hit, in order
RECURSIVE SelectEach(_, _)
SelectEach(s, ids) ==
    IF Len(ids) = 0 THEN s ELSE SelectEach(selectElement(s, Head(ids), TRUE), Tail(ids))

MarqueeHits(s, box) ==
    SelectSeq(s.rootIds,
              LAMBDA id : Has(s.elements, id) /\ Intersects(Get(s.elements, id).bounds, box))

MarqueeBigEnough(box) ==
    /\ box # <<>>
    /\ box[1].width > MARQUEE_MIN
    /\ box[1].height > MARQUEE_MIN

\* handleUp, marquee branch
MouseUpMarquee ==
    /\ Up
    /\ ~panRef.active
    /\ ~dragRef.active
    /\ ~resizeRef.active
    /\ marqueeRef.active
    /\ Step("marqueeUp", {}) /\ Aside /\ Ok
    /\ marqueeRef' = [marqueeRef EXCEPT !.active = FALSE]
    /\ state' = IF MarqueeBigEnough(marqueeBox)
                THEN SelectEach(state, MarqueeHits(state, marqueeBox[1]))
                ELSE state
    /\ marqueeBox' = <<>>
    /\ UNCHANGED <<activeTool, isDrawing, drawStart, nextId>>
    /\ UNCHANGED <<panRef, dragRef, resizeRef, drawStartRef, frames, nextRaf>>
    /\ UNCHANGED viewVars
    /\ UNCHANGED sideVars

\* the bounds stopDrawing gives the new element
stopDrawingBounds(start, position) ==
    LET rawX == Min2(start.x, position.x)
        rawY == Min2(start.y, position.y)
        rawW == OrElse(Abs(position.x - start.x), DEFAULT_W)
        rawH == OrElse(Abs(position.y - start.y), DEFAULT_H)
    IN  Bounds(snapToGrid(rawX), snapToGrid(rawY),
               OrElse(snapToGrid(rawW), DEFAULT_W), OrElse(snapToGrid(rawH), DEFAULT_H))

\* handleUp, draw branch: onStopDrawing(pos), i.e. the hook's stopDrawing
MouseUpDraw(pos) ==
    /\ Up
    /\ ~panRef.active
    /\ ~dragRef.active
    /\ ~resizeRef.active
    /\ ~marqueeRef.active
    /\ drawStartRef # <<>>
    /\ drawStartRef' = <<>>
    /\ IF ~isDrawing \/ drawStart = <<>>
       THEN /\ Step("stopDrawingNone", {})
            /\ UNCHANGED hookVars
       ELSE LET element == createElement(activeTool, stopDrawingBounds(drawStart[1], pos),
                                         nextId, state.elements)
            IN  /\ Step(IF element = <<>> THEN "stopDrawingNone" ELSE "stopDrawing",
                        IF element = <<>> THEN {} ELSE {nextId})
                /\ state' = IF element = <<>> THEN state ELSE addElement(state, element[1])
                /\ nextId' = IF element = <<>> THEN nextId ELSE nextId + 1
                /\ isDrawing' = FALSE
                /\ drawStart' = <<>>
                /\ activeTool' = "select"
    /\ Fresh /\ Ok
    /\ UNCHANGED <<panRef, dragRef, resizeRef, marqueeRef, marqueeBox, frames, nextRaf>>
    /\ UNCHANGED viewVars
    /\ UNCHANGED sideVars

\* ------------------------------------------- the hook's functions, called directly
\* updateElement(id, { locked: true })
CallUpdateElement(id) ==
    /\ Edit
    /\ Step("callUpdate", {id}) /\ Fresh /\ Ok
    /\ state' = updateElement(state, id, [locked |-> TRUE])
    /\ UNCHANGED <<activeTool, isDrawing, drawStart, nextId>>
    /\ UNCHANGED rendererVars
    /\ UNCHANGED viewVars
    /\ UNCHANGED sideVars

\* moveElement(id, { x: 10, y: 0 })
CallMoveElement(id) ==
    /\ Edit
    /\ Step("callMove", {id}) /\ Fresh /\ Ok
    /\ state' = moveElement(state, id, Position(GRID_SIZE, 0))
    /\ UNCHANGED <<activeTool, isDrawing, drawStart, nextId>>
    /\ UNCHANGED rendererVars
    /\ UNCHANGED viewVars
    /\ UNCHANGED sideVars

\* resizeElement(id, { x: 0, y: 0, width: 50, height: 50 })
CallResizeElement(id) ==
    /\ Edit
    /\ Step("callResize", {id}) /\ Fresh /\ Ok
    /\ state' = resizeElement(state, id, Bounds(0, 0, 50, 50))
    /\ UNCHANGED <<activeTool, isDrawing, drawStart, nextId>>
    /\ UNCHANGED rendererVars
    /\ UNCHANGED viewVars
    /\ UNCHANGED sideVars

\* bringToFront(id), sendToBack(id), bringForward(id), sendBackward(id)
CallZOrder(op, id) ==
    /\ Edit
    /\ Step("callZOrder", {id}) /\ Fresh /\ Ok
    /\ state' = CASE op = "bringToFront" -> bringToFront(state, id)
                  [] op = "sendToBack" -> sendToBack(state, id)
                  [] op = "bringForward" -> bringForward(state, id)
                  [] op = "sendBackward" -> sendBackward(state, id)
    /\ UNCHANGED <<activeTool, isDrawing, drawStart, nextId>>
    /\ UNCHANGED rendererVars
    /\ UNCHANGED viewVars
    /\ UNCHANGED sideVars

\* alignElements(axis) whatever the selection is
CallAlign(axis) ==
    /\ Edit
    /\ AlignExact(state, axis)
    /\ Step("callAlign", Range(state.selectedIds)) /\ Fresh
    /\ IF alignThrows(state)
       THEN crashed' = TRUE /\ UNCHANGED state
       ELSE crashed' = FALSE /\ state' = alignElements(state, axis)
    /\ UNCHANGED <<activeTool, isDrawing, drawStart, nextId>>
    /\ UNCHANGED rendererVars
    /\ UNCHANGED viewVars
    /\ UNCHANGED sideVars

\* distributeElements(axis) whatever the selection is
CallDistribute(axis) ==
    /\ Edit
    /\ DistributeExact(state, axis)
    /\ Step("callDistribute", Range(state.selectedIds)) /\ Fresh /\ Ok
    /\ state' = distributeElements(state, axis)
    /\ UNCHANGED <<activeTool, isDrawing, drawStart, nextId>>
    /\ UNCHANGED rendererVars
    /\ UNCHANGED viewVars
    /\ UNCHANGED sideVars

\* ------------------------------------------------------------------ Space key
\* handleKeyDown, e.code === 'Space': the hand tool while the key is held
KeyDownSpace ==
    /\ Edit
    /\ Step("spaceDown", {}) /\ Aside /\ Ok
    /\ isSpacePressed' = TRUE
    /\ activeTool' = "hand"
    /\ heldTool' = IF isSpacePressed THEN heldTool ELSE activeTool
    /\ UNCHANGED <<state, isDrawing, drawStart, nextId>>
    /\ UNCHANGED rendererVars
    /\ UNCHANGED <<zoom, pan, store>>
    /\ UNCHANGED sideVars

\* handleKeyUp
KeyUpSpace ==
    /\ Edit
    /\ Step("spaceUp", {}) /\ Aside /\ Ok
    /\ isSpacePressed' = FALSE
    /\ activeTool' = IF isSpacePressed THEN "select" ELSE activeTool
    /\ UNCHANGED <<state, isDrawing, drawStart, nextId>>
    /\ UNCHANGED rendererVars
    /\ UNCHANGED <<zoom, pan, store, heldTool>>
    /\ UNCHANGED sideVars

\* ----------------------------------------------------------- wheel, zoom, pan
FitsTerm(r) == Abs(r.n) <= ZoomTermCap /\ r.d <= ZoomTermCap
FitsPan(p) == Abs(p.x) <= MaxPanAbs /\ Abs(p.y) <= MaxPanAbs

\* handleWheel
Wheel(modifier, deltaX, deltaY) ==
    /\ Edit
    /\ IF modifier
       THEN /\ FitsTerm(zoom)
            /\ Step("wheelZoom", {})
            /\ zoom' = wheelZoom(zoom, deltaY)
            /\ UNCHANGED pan
       ELSE /\ FitsPan(Position(pan.x - deltaX, pan.y - deltaY))
            /\ Step("wheelPan", {})
            /\ pan' = Position(pan.x - deltaX, pan.y - deltaY)
            /\ UNCHANGED zoom
    /\ Aside /\ Ok
    /\ UNCHANGED hookVars
    /\ UNCHANGED rendererVars
    /\ UNCHANGED <<isSpacePressed, store, heldTool>>
    /\ UNCHANGED sideVars

ZoomOutButton ==
    /\ Motion
    /\ FitsTerm(zoom)
    /\ Step("zoomOut", {}) /\ Aside /\ Ok
    /\ zoom' = zoomOut(zoom)
    /\ UNCHANGED hookVars
    /\ UNCHANGED rendererVars
    /\ UNCHANGED <<isSpacePressed, pan, store, heldTool>>
    /\ UNCHANGED sideVars

ZoomInButton ==
    /\ Motion
    /\ FitsTerm(zoom)
    /\ Step("zoomIn", {}) /\ Aside /\ Ok
    /\ zoom' = zoomIn(zoom)
    /\ UNCHANGED hookVars
    /\ UNCHANGED rendererVars
    /\ UNCHANGED <<isSpacePressed, pan, store, heldTool>>
    /\ UNCHANGED sideVars

\* the Reset View button: setZoom(1); setPan({ x: 0, y: 0 })
ResetViewButton ==
    /\ Edit
    /\ Step("resetViewButton", {}) /\ Aside /\ Ok
    /\ zoom' = One
    /\ pan' = Origin
    /\ UNCHANGED hookVars
    /\ UNCHANGED rendererVars
    /\ UNCHANGED <<isSpacePressed, store, heldTool>>
    /\ UNCHANGED sideVars

\* handleMove, pan branch
MouseMovePan(client) ==
    /\ Motion
    /\ panRef.active
    /\ Step("pan", {}) /\ Aside /\ Ok
    /\ pan' = Position(panRef.startPan.x + (client.x - panRef.startPos.x),
                       panRef.startPan.y + (client.y - panRef.startPos.y))
    /\ FitsPan(pan')
    /\ UNCHANGED hookVars
    /\ UNCHANGED rendererVars
    /\ UNCHANGED <<isSpacePressed, zoom, store, heldTool>>
    /\ UNCHANGED sideVars

\* the canvas store's setZoom, setPan and resetView
StoreSetZoom(z) ==
    /\ Edit
    /\ Step("setZoom", {}) /\ Aside /\ Ok
    /\ store' = setZoom(store, z)
    /\ UNCHANGED hookVars
    /\ UNCHANGED rendererVars
    /\ UNCHANGED <<isSpacePressed, zoom, pan, heldTool>>
    /\ UNCHANGED sideVars

StoreSetPan(x, y) ==
    /\ Edit
    /\ Step("setPan", {}) /\ Aside /\ Ok
    /\ store' = setPan(store, x, y)
    /\ UNCHANGED hookVars
    /\ UNCHANGED rendererVars
    /\ UNCHANGED <<isSpacePressed, zoom, pan, heldTool>>
    /\ UNCHANGED sideVars

StoreResetView ==
    /\ Edit
    /\ Step("resetView", {}) /\ Aside /\ Ok
    /\ store' = resetView(store)
    /\ UNCHANGED hookVars
    /\ UNCHANGED rendererVars
    /\ UNCHANGED <<isSpacePressed, zoom, pan, heldTool>>
    /\ UNCHANGED sideVars

\* ----------------------------------------------------------- freehand canvas
\* a call of one of useCanvas's functions: before keeps the elements it found
SketchCall(name, next) ==
    /\ Edit
    /\ Step(name, {}) /\ Ok
    /\ before' = sketch.elements
    /\ clean' = FALSE
    /\ sketch' = next
    /\ UNCHANGED hookVars
    /\ UNCHANGED rendererVars
    /\ UNCHANGED viewVars
    /\ UNCHANGED <<snap, storeScene, ai>>

SketchSetTool(tool) == SketchCall("sketchSetTool", sketchSetTool(sketch, tool))
SketchStartDrawing(point) == SketchCall("sketchStart", sketchStartDrawing(sketch, point))
SketchContinueDrawing(point) ==
    SketchCall("sketchContinue", sketchContinueDrawing(sketch, point))
SketchStopDrawing == SketchCall("sketchStop", sketchStopDrawing(sketch))
SketchUndo ==
    SketchCall(IF sketch.historyIndex <= 0 THEN "sketchUndoNone" ELSE "sketchUndo",
               sketchUndo(sketch))
SketchRedo ==
    SketchCall(IF sketch.historyIndex >= Len(sketch.history) - 1
               THEN "sketchRedoNone" ELSE "sketchRedo",
               sketchRedo(sketch))
SketchClearCanvas == SketchCall("sketchClear", sketchClearCanvas(sketch))
\* handleExampleSketchSelect, handleLoadDesign: setElements(elements)
SketchSetElements(elements) ==
    SketchCall("sketchSetElements", sketchSetElements(sketch, elements))

\* ---------------------------------------------------------------- sketch page
\* an event of the sketch page that leaves the page in state next
PageEvent(name, next) ==
    /\ Edit
    /\ Step(name, {}) /\ Aside /\ Ok
    /\ ai' = next
    /\ UNCHANGED hookVars
    /\ UNCHANGED rendererVars
    /\ UNCHANGED viewVars
    /\ UNCHANGED <<snap, storeScene, sketch>>

\* a click on a tab of the sidebar
SetActiveTab(tab) ==
    /\ tab # ai.activeTab
    /\ PageEvent("setActiveTab", [ai EXCEPT !.activeTab = tab])

\* MoodBoardUploader: a file is dropped or chosen; the uploader is mounted with
\* the upload tab, and shows its drop zone whenever it is mounted anew
UploadMoodBoard ==
    /\ ai.activeTab = "upload"
    /\ ai.issued < MaxRequests
    /\ PageEvent("upload", handleMoodBoardUpload(ai))

\* ExampleGallery: a mood board example is clicked; disabled while isLoading
SelectMoodboard ==
    /\ ai.activeTab = "examples"
    /\ ~ai.isExtractingTypography
    /\ ai.issued < MaxRequests
    /\ PageEvent("selectMoodboard", handleMoodBoardUpload(ai))

\* DesignChat: a message is sent; disabled without a sketch and while isGenerating
SendChatMessage ==
    /\ Len(sketch.elements) > 0
    /\ ~ai.isGeneratingUI
    /\ ai.issued < MaxRequests
    /\ PageEvent("sendMessage", handleChatMessage(ai))

\* the promise of an extraction request settles
ExtractResponse(req, outcome) ==
    /\ req \in ai.inFlight
    /\ req.kind = "extract"
    /\ PageEvent("extracted", extractSettled(ai, req, outcome))

\* the promise of a generation request settles
GenerateResponse(req, outcome) ==
    /\ req \in ai.inFlight
    /\ req.kind = "generate"
    /\ PageEvent("generated", generateSettled(ai, req, outcome))

\* --------------------------------------------------------------- canvas store
\* addElement(type, x, y, parentId): the new element gets the next id
StoreAddElement(parentId) ==
    /\ Edit
    /\ Len(storeScene.elements) < MaxStoreElements
    /\ parentId = NoId \/ Has(storeScene.elements, parentId)
    /\ Step("storeAdd", {}) /\ Aside /\ Ok
    /\ storeScene' = storeAddElement(storeScene, Len(storeScene.elements) + 1, parentId)
    /\ UNCHANGED hookVars
    /\ UNCHANGED rendererVars
    /\ UNCHANGED viewVars
    /\ UNCHANGED <<snap, ai, sketch>>

\* moveElement(id, newParentId)
StoreMoveElement(id, newParentId) ==
    /\ Edit
    /\ Step("storeMove", {id, newParentId}) /\ Aside /\ Ok
    /\ storeScene' = storeMoveElement(storeScene, id, newParentId)
    /\ UNCHANGED hookVars
    /\ UNCHANGED rendererVars
    /\ UNCHANGED viewVars
    /\ UNCHANGED <<snap, ai, sketch>>

\* ---------------------------------------------------------------- snap guides
\* the drag frame's call computeSnapGuides(elementId, { ...el.bounds, x: el.bounds.x
\* + delta.x, y: el.bounds.y + delta.y }); the renderer drops the result
ComputeSnapGuides(movingId, delta) ==
    /\ Motion
    /\ Has(state.elements, movingId)
    /\ Step("snapGuides", {}) /\ Aside /\ Ok
    /\ LET b == Get(state.elements, movingId).bounds
           movingBounds == [b EXCEPT !.x = @ + delta.x, !.y = @ + delta.y]
           r == computeSnapGuides(state, movingId, movingBounds)
       IN  snap' = [movingId |-> movingId, movingBounds |-> movingBounds,
                    guides |-> r.guides, snappedBounds |-> r.snappedBounds]
    /\ UNCHANGED hookVars
    /\ UNCHANGED rendererVars
    /\ UNCHANGED viewVars
    /\ UNCHANGED <<storeScene, ai, sketch>>

\* ------------------------------------------------------------ specification
Next ==
    \/ \E tool \in Tools : SetActiveTool(tool)
    \/ DeleteSelected
    \/ Undo
    \/ Redo
    \/ ClearCanvas
    \/ \E json \in ImportScenes : ImportFromJSON(json)
    \/ ImportExported
    \/ Reload
    \/ \E parent \in Ids(state.elements) : AddChildElement(parent)
    \/ \E key \in BoundsKeys, value \in PanelValues : UpdateBounds(key, value)
    \/ ToggleLocked
    \/ \E op \in ZOrderOps : ZOrder(op)
    \/ \E axis \in AlignAxes : AlignElements(axis)
    \/ \E axis \in DistributeAxes : DistributeElements(axis)
    \/ \E panButton \in BOOLEAN : MouseDownPan(Origin, panButton)
    \/ \E pos \in Pos, additive \in BOOLEAN : MouseDownMarquee(pos, additive)
    \/ \E pos \in Pos : MouseDownDraw(pos)
    \/ \E id \in Ids(state.elements), shiftKey \in BOOLEAN : MouseDownElement(id, shiftKey)
    \/ \E id \in Ids(state.elements), handle \in Handles : MouseDownHandle(id, handle)
    \/ \E pos \in Pos : MouseMoveDrag(pos)
    \/ \E pos \in Pos : MouseMoveResize(pos)
    \/ \E pos \in Pos : MouseMoveMarquee(pos)
    \/ AnimationFrame
    \/ MouseUpPan
    \/ MouseUpDrag
    \/ MouseUpResize
    \/ MouseUpMarquee
    \/ \E pos \in Pos : MouseUpDraw(pos)

Spec == Init /\ [][Next]_vars

NextHistory ==
    \/ \E json \in ImportScenes : ImportFromJSON(json)
    \/ Undo
    \/ Redo

SpecHistory == InitHistory /\ [][NextHistory]_vars

NextArrange ==
    \/ \E id \in Ids(state.elements), shiftKey \in BOOLEAN : MouseDownElement(id, shiftKey)
    \/ MouseUpDrag
    \/ \E pos \in ArrangePos : MouseDownMarquee(pos, FALSE)
    \/ \E pos \in ArrangePos : MouseMoveMarquee(pos)
    \/ MouseUpMarquee
    \/ \E axis \in DistributeAxes : DistributeElements(axis)
    \/ Undo

SpecArrange == InitArrange /\ [][NextArrange]_vars

\* documents are imported, elements are clicked and re-stacked from the panel,
\* and the steps are undone and redone
NextPaint ==
    \/ \E json \in PaintScenes : ImportFromJSON(json)
    \/ \E id \in Ids(state.elements) : MouseDownElement(id, FALSE)
    \/ MouseUpDrag
    \/ \E op \in ZOrderOps : ZOrder(op)
    \/ Undo
    \/ Redo

SpecPaint == InitPaint /\ [][NextPaint]_vars

\* tools are chosen, Space is pressed and released, and gestures of every
\* kind start and end on the canvas
NextTools ==
    \/ \E tool \in DrawTools : SetActiveTool(tool)
    \/ KeyDownSpace
    \/ KeyUpSpace
    \/ MouseDownPan(Origin, FALSE)
    \/ MouseUpPan
    \/ \E pos \in Pos : MouseDownMarquee(pos, FALSE)
    \/ MouseUpMarquee
    \/ \E pos \in Pos : MouseDownDraw(pos)
    \/ \E pos \in Pos : MouseUpDraw(pos)
    \/ \E id \in Ids(state.elements) : MouseDownElement(id, FALSE)
    \/ MouseUpDrag

SpecTools == InitTools /\ [][NextTools]_vars

\* the view is zoomed, panned and reset, in the renderer and in the store
NextView ==
    \/ \E modifier \in BOOLEAN, deltaY \in WheelDeltas : Wheel(modifier, 0, deltaY)
    \/ ZoomOutButton
    \/ ZoomInButton
    \/ ResetViewButton
    \/ \E client \in PanPos : MouseDownPan(client, TRUE)
    \/ \E client \in PanPos : MouseMovePan(client)
    \/ MouseUpPan
    \/ \E z \in ZoomInputs : StoreSetZoom(z)
    \/ \E x \in WheelDeltas : StoreSetPan(x, 0)
    \/ StoreResetView

SpecView == InitViewRun /\ [][NextView]_vars

\* elements are drawn, added, clicked and undone, and the hook's functions are
\* called with ids that have an element and with one that has none
NextCalls ==
    \/ \E parent \in Ids(state.elements) : AddChildElement(parent)
    \/ \E id \in Ids(state.elements) : MouseDownElement(id, TRUE)
    \/ MouseUpDrag
    \/ Undo
    \/ \E id \in CallIds : CallUpdateElement(id)
    \/ \E id \in CallIds : CallMoveElement(id)
    \/ \E id \in CallIds : CallResizeElement(id)
    \/ \E op \in ZOrderOps, id \in CallIds : CallZOrder(op, id)
    \/ \E axis \in {"left", "top"} : CallAlign(axis)
    \/ \E axis \in DistributeAxes : CallDistribute(axis)

SpecCalls == InitCalls /\ [][NextCalls]_vars

\* gestures of every kind are started with one or two buttons, moved and ended
NextChord ==
    \/ \E tool \in Tools : SetActiveTool(tool)
    \/ \E panButton \in BOOLEAN : MouseDownPan(Origin, panButton)
    \/ \E pos \in Pos : MouseDownMarquee(pos, FALSE)
    \/ \E pos \in Pos : MouseDownDraw(pos)
    \/ \E id \in Ids(state.elements) : MouseDownElement(id, FALSE)
    \/ \E id \in Ids(state.elements), handle \in Handles : MouseDownHandle(id, handle)
    \/ \E pos \in Pos : MouseMoveDrag(pos)
    \/ \E pos \in Pos : MouseMoveResize(pos)
    \/ \E pos \in Pos : MouseMoveMarquee(pos)
    \/ AnimationFrame
    \/ MouseUpPan
    \/ MouseUpDrag
    \/ MouseUpResize
    \/ MouseUpMarquee
    \/ \E pos \in Pos : MouseUpDraw(pos)

SpecChord == InitChord /\ [][NextChord]_vars

\* elements are clicked, and guides are computed for one of them at a
\* pointer delta
NextSnap ==
    \/ \E id \in Ids(state.elements), shiftKey \in BOOLEAN : MouseDownElement(id, shiftKey)
    \/ MouseUpDrag
    \/ \E id \in Ids(state.elements), delta \in SnapDeltas : ComputeSnapGuides(id, delta)

SpecSnap == InitSnap /\ [][NextSnap]_vars

\* elements are added to the store and moved to another parent or to the root
NextStore ==
    \/ \E parentId \in {NoId} \cup Ids(storeScene.elements) : StoreAddElement(parentId)
    \/ \E id \in Ids(storeScene.elements), newParentId \in {NoId} \cup Ids(storeScene.elements) :
           StoreMoveElement(id, newParentId)

SpecStore == InitStore /\ [][NextStore]_vars

\* the freehand canvas: tools, strokes, undo, redo, clear and loaded sketches
NextSketch ==
    \/ \E tool \in SketchTools : SketchSetTool(tool)
    \/ \E point \in SketchPoints : SketchStartDrawing(point)
    \/ \E point \in SketchPoints : SketchContinueDrawing(point)
    \/ SketchStopDrawing
    \/ SketchUndo
    \/ SketchRedo
    \/ SketchClearCanvas
    \/ SketchSetElements(ExampleSketch)

SpecSketch == InitSketch /\ [][NextSketch]_vars

\* the sketch page: tabs, uploads, examples, chat messages and the responses
\* of the AI service in any order
NextPage ==
    \/ \E tab \in SidebarTabs : SetActiveTab(tab)
    \/ UploadMoodBoard
    \/ SelectMoodboard
    \/ SketchSetElements(ExampleSketch)
    \/ SendChatMessage
    \/ \E req \in ai.inFlight, outcome \in Outcomes : ExtractResponse(req, outcome)
    \/ \E req \in ai.inFlight, outcome \in Outcomes : GenerateResponse(req, outcome)

SpecPage == InitPage /\ [][NextPage]_vars

\* ===================================================================== claims
\* ------------------------------------------------------------------------ C1
OnGrid(b) ==
    /\ b.x % GRID_SIZE = 0
    /\ b.y % GRID_SIZE = 0
    /\ b.width % GRID_SIZE = 0
    /\ b.height % GRID_SIZE = 0
    /\ b.width >= MIN_SIZE
    /\ b.height >= MIN_SIZE

\* C1: after stopDrawing, moveElement or resizeElement every element the
\* gesture touched has x, y, width and height that are multiples of GRID_SIZE
\* and a width and height of at least 20.
GridInvariant ==
    lastOp \in {"stopDrawing", "drag", "endDrag", "resize"} =>
        \A id \in touched \cap Ids(state.elements) :
            OnGrid(Get(state.elements, id).bounds)

\* ------------------------------------------------------------------------ C2
\* C2: undo() right after a state-changing operation restores the elements
\* map the operation found, and redo() right after that undo() restores the
\* map the operation left.
UndoRedoInverse ==
    [][ /\ lastOp' = "undoOp" => AsMap(state'.elements) = AsMap(before)
        /\ (lastOp = "undoOp" /\ lastOp' = "redo") =>
               AsMap(state'.elements) = AsMap(before) ]_vars

\* ------------------------------------------------------------------------ C3
\* C3: when the future stack is non-empty and an operation other than undo
\* and redo changes the elements map, the future stack is empty afterwards.
FutureCleared ==
    [][ ( /\ Len(state.future) > 0
          /\ lastOp' \notin {"undo", "undoOp", "redo"}
          /\ AsMap(state'.elements) # AsMap(state.elements) )
        => Len(state'.future) = 0 ]_vars

\* ------------------------------------------------------------------------ C4
Kids(els, ids) == UNION {Range(Get(els, id).childIds) : id \in ids \cap Ids(els)}

RECURSIVE Closure(_, _)
Closure(els, ids) ==
    LET more == ids \cup Kids(els, ids)
    IN  IF more = ids THEN ids ELSE Closure(els, more)

\* an element and all its descendants through childIds
Subtree(els, id) == Closure(els, {id})

\* C4: deleting a selected element removes it and every descendant from the
\* elements map, from rootIds and from selectedIds.
CascadeDelete ==
    [][ lastOp' = "deleteSelected" =>
          \A id \in Range(state.selectedIds) \cap Ids(state.elements) :
              \A d \in Subtree(state.elements, id) :
                  /\ ~Has(state'.elements, d)
                  /\ ~Includes(state'.rootIds, d)
                  /\ ~Includes(state'.selectedIds, d) ]_vars

\* ------------------------------------------------------------------------ C5
ParentChildOk(els) ==
    \A id \in Ids(els) :
        LET e == Get(els, id)
        IN  /\ e.parentId # NoId =>
                 /\ Has(els, e.parentId)
                 /\ Includes(Get(els, e.parentId).childIds, id)
            /\ \A c \in Range(e.childIds) :
                 /\ Has(els, c)
                 /\ Get(els, c).parentId = id

\* C5: every element with a parent is listed among that parent's children,
\* every listed child exists and names that parent, and no reference dangles.
ParentChildConsistent == ParentChildOk(state.elements)

\* ------------------------------------------------------------------------ C6
\* C6: every selected id is a key of the elements map.
SelectionValid == Range(state.selectedIds) \subseteq Ids(state.elements)

\* ------------------------------------------------------------------------ C7
\* C7: the past stack never holds more than 50 snapshots, redo() included,
\* and a push onto a full stack drops the oldest snapshot.
HistoryBounded ==
    [][ /\ Len(state'.past) <= 50
        /\ (lastOp' = "importFromJSON" /\ Len(state.past) = 50) =>
               state'.past = Append(Tail(state.past), state.elements) ]_vars

\* redo() pushed onto a stack of 49 after the 51st push had dropped the oldest
HistoryFullAfterRedo ==
    /\ lastOp = "redo"
    /\ Len(state.past) = 50
    /\ state.past[1] # MarqueeScene.elements

\* ------------------------------------------------------------------------ C8
OverlapsBox(b, m) ==
    /\ b.x <= m.x + m.width
    /\ m.x <= b.x + b.width
    /\ b.y <= m.y + m.height
    /\ m.y <= b.y + b.height

OverlappingRoots(s, m) ==
    {id \in Range(s.rootIds) \cap Ids(s.elements) : OverlapsBox(Get(s.elements, id).bounds, m)}

AdditiveMarqueeUnion ==
    [][ (lastOp' = "marqueeUp" /\ marqueeRef.additive /\ MarqueeBigEnough(marqueeBox)) =>
            Range(state'.selectedIds) =
                Range(state.selectedIds) \cup OverlappingRoots(state, marqueeBox[1]) ]_vars

\* ----------------------------------------------------------------------- C10
\* the edge or centre (doubled) an alignment gives to bounds b
Edge2(axis, b) ==
    CASE axis = "left" -> 2 * b.x
      [] axis = "center-h" -> 2 * b.x + b.width
      [] axis = "right" -> 2 * (b.x + b.width)
      [] axis = "top" -> 2 * b.y
      [] axis = "center-v" -> 2 * b.y + b.height
      [] axis = "bottom" -> 2 * (b.y + b.height)

\* the same reference (doubled) of the combined bounding box of a set of bounds
Reference2(axis, bs) ==
    LET minX == SetMin({b.x : b \in bs})
        maxX == SetMax({b.x + b.width : b \in bs})
        minY == SetMin({b.y : b \in bs})
        maxY == SetMax({b.y + b.height : b \in bs})
    IN  CASE axis = "left" -> 2 * minX
          [] axis = "center-h" -> minX + maxX
          [] axis = "right" -> 2 * maxX
          [] axis = "top" -> 2 * minY
          [] axis = "center-v" -> minY + maxY
          [] axis = "bottom" -> 2 * maxY

Orders(ids) ==
    {o \in [1..Cardinality(ids) -> ids] : \A i, j \in DOMAIN o : i # j => o[i] # o[j]}

PaintsBefore(s, a, b) ==
    LET order == sortedRootElements(s)
        at(id) == CHOOSE i \in DOMAIN order : order[i].id = id
    IN  at(a) < at(b)

PaintedIds(s) == {sortedRootElements(s)[i].id : i \in DOMAIN sortedRootElements(s)}

\* C13: two root elements with equal zIndex are painted in the same relative
\* order on every render pass in which neither was added, deleted or
\* re-ordered: a step that is no import and leaves both elements as they were
\* (undo and redo of operations on other elements included) keeps their order.
PaintOrderStable ==
    [][ lastOp' # "importFromJSON" =>
          \A a, b \in PaintedIds(state) \cap PaintedIds(state') :
              ( /\ a # b
                /\ Get(state.elements, a).zIndex = Get(state.elements, b).zIndex
                /\ Get(state'.elements, a) = Get(state.elements, a)
                /\ Get(state'.elements, b) = Get(state.elements, b) )
              => (PaintsBefore(state', a, b) <=> PaintsBefore(state, a, b)) ]_vars

\* ----------------------------------------------------------------------- C14
OthersZ(els, id) == {els[i].zIndex : i \in {j \in DOMAIN els : els[j].id # id}}

\* C14: bringToFront(id) sets the zIndex of an existing element to the maximum
\* zIndex over all elements plus 1 and sendToBack(id) to the minimum minus 1,
\* for every assignment of zIndex values.
ZOrderExtremes ==
    [][ \A id \in touched' :
          /\ (lastOp' = "bringToFront" /\ Has(state.elements, id)) =>
                 Get(state'.elements, id).zIndex = SetMax(ZValues(state.elements)) + 1
          /\ (lastOp' = "sendToBack" /\ Has(state.elements, id)) =>
                 Get(state'.elements, id).zIndex = SetMin(ZValues(state.elements)) - 1 ]_vars

\* C14 as the code has it: 0 takes part in the maximum and in the minimum, and
\* the element ends strictly above (strictly below) every other element.
ZOrderExtremesWithZero ==
    [][ \A id \in touched' :
          /\ (lastOp' = "bringToFront" /\ Has(state.elements, id)) =>
                 /\ Get(state'.elements, id).zIndex =
                        Max2(SetMax(ZValues(state.elements)), 0) + 1
                 /\ \A z \in OthersZ(state'.elements, id) : Get(state'.elements, id).zIndex > z
          /\ (lastOp' = "sendToBack" /\ Has(state.elements, id)) =>
                 /\ Get(state'.elements, id).zIndex =
                        Min2(SetMin(ZValues(state.elements)), 0) - 1
                 /\ \A z \in OthersZ(state'.elements, id) : Get(state'.elements, id).zIndex < z ]_vars

\* an element was brought to the front of a scene whose zIndex values were all
\* negative
BroughtToFrontOfNegatives ==
    /\ lastOp = "bringToFront"
    /\ Len(before) > 1
    /\ \A z \in ZValues(before) : z < 0
    /\ \E id \in touched : Has(state.elements, id) /\ Get(state.elements, id).zIndex = 1

\* ----------------------------------------------------------------------- C15
NewIds == Ids(state'.elements) \ Ids(state.elements)

\* C15: a drawing gesture that ends with pointer-up while a drawing tool is
\* active adds exactly one new element of that tool's variant, makes it the
\* sole selection and sets the active tool to select; no element is ever
\* created while the active tool is select or hand.
DrawCommit ==
    [][ /\ ( /\ lastOp' \in {"stopDrawing", "stopDrawingNone"}
             /\ activeTool \notin {"select", "hand"} )
           => /\ Cardinality(NewIds) = 1
              /\ Len(state'.elements) = Len(state.elements) + 1
              /\ \A id \in Ids(state.elements) :
                     Get(state'.elements, id) = Get(state.elements, id)
              /\ \A id \in NewIds :
                     /\ Get(state'.elements, id).type = VariantOf(activeTool)
                     /\ state'.selectedIds = <<id>>
              /\ activeTool' = "select"
        /\ ( /\ activeTool \in {"select", "hand"}
             /\ lastOp' \notin {"undo", "undoOp", "redo", "importFromJSON", "addElement"} )
           => NewIds = {} ]_vars

\* an auto-layout element was drawn and is the selection
DrewAutoLayout ==
    /\ lastOp = "stopDrawing"
    /\ activeTool = "select"
    /\ Len(state.selectedIds) = 1
    /\ Has(state.elements, state.selectedIds[1])
    /\ Get(state.elements, state.selectedIds[1]).type = "auto-layout"
    /\ ~Has(before, state.selectedIds[1])

\* ----------------------------------------------------------------------- C16
\* C16: when Space is pressed while tool T is active and released with no other
\* tool change in between, the active tool is T again after the release.
SpaceRestoresTool ==
    [][ (lastOp = "spaceDown" /\ lastOp' = "spaceUp") => activeTool' = heldTool ]_vars

\* ----------------------------------------------------------------------- C17
InRange(z) == LessEq(MIN_ZOOM, z) /\ LessEq(z, MAX_ZOOM)

\* C17: after any sequence of modifier-wheel ticks, zoom button presses,
\* reset-view and setZoom calls the zoom factor is within [0.1, 3.0], and a
\* wheel event without the modifier changes only the pan.
ZoomRange ==
    [][ /\ InRange(zoom')
        /\ InRange(store'.zoom)
        /\ lastOp' = "wheelPan" =>
               /\ zoom' = zoom
               /\ UNCHANGED <<store, hookVars, rendererVars>> ]_vars

\* a wheel tick with the modifier ran into the upper limit
WheelAtMaxZoom ==
    /\ lastOp = "wheelZoom"
    /\ zoom = MAX_ZOOM
    /\ pan # Origin

\* ----------------------------------------------------------------------- C18
Shift(id) ==
    Position(Get(state'.elements, id).bounds.x - Get(state.elements, id).bounds.x,
             Get(state'.elements, id).bounds.y - Get(state.elements, id).bounds.y)

\* C18: when the dragged element is part of a multi-selection, every step of
\* the drag that calls moveElement changes the position of all selected
\* (unlocked) elements by one and the same (dx, dy).
GroupDragSameDelta ==
    [][ ( /\ lastOp' \in {"drag", "endDrag"}
          /\ dragRef.active
          /\ Has(state.elements, dragRef.elementId)
          /\ ~Get(state.elements, dragRef.elementId).locked
          /\ Includes(state.selectedIds, dragRef.elementId) )
        => \A a, b \in {id \in Range(state.selectedIds) :
                            Has(state.elements, id) /\ ~Get(state.elements, id).locked} :
               Shift(a) = Shift(b) ]_vars

\* ----------------------------------------------------------------------- C19
\* C19: alignElements with fewer than 2 selected elements and
\* distributeElements with fewer than 3 selected elements leave the whole
\* canvas state (elements, rootIds, selection, both history stacks) unchanged
\* and raise no error.
InvalidOpsNoOp ==
    [][ ( \/ lastOp' = "callAlign" /\ CountSelectedEls(state) < 2
          \/ lastOp' = "callDistribute" /\ CountSelectedEls(state) < 3 )
        => (state' = state /\ ~crashed') ]_vars

\* ----------------------------------------------------------------------- C20
\* C20: updateElement, moveElement, resizeElement and the four z-order
\* functions called with an id that has no element, and align/distribute with
\* a selection that contains such an id, never throw and leave the elements
\* map, rootIds and both history stacks unchanged for the missing id.
MissingRefNoOp ==
    [][ /\ ( /\ lastOp' \in {"callUpdate", "callMove", "callResize", "callZOrder"}
             /\ \E id \in touched' : ~Has(state.elements, id) )
           => /\ ~crashed'
              /\ state'.elements = state.elements
              /\ state'.rootIds = state.rootIds
              /\ state'.past = state.past
              /\ state'.future = state.future
        /\ ( /\ lastOp' \in {"callAlign", "callDistribute"}
             /\ \E id \in touched' : ~Has(state.elements, id) )
           => /\ ~crashed'
              /\ Ids(state'.elements) = Ids(state.elements)
              /\ state'.rootIds = state.rootIds ]_vars

\* ----------------------------------------------------------------------- C21
\* C21: while an element is locked, no drag, group drag, resize, align or
\* distribute step changes its bounds, and no drag or resize gesture is
\* started on it.
LockedUntouched ==
    [][ /\ lastOp' \in ({"drag", "endDrag", "resize", "endResize"}
                        \cup AlignAxes \cup DistributeAxes)
           => \A id \in Ids(state.elements) \cap Ids(state'.elements) :
                  Get(state.elements, id).locked =>
                      Get(state'.elements, id).bounds = Get(state.elements, id).bounds
        /\ lastOp' = "startDrag" => ~Get(state.elements, dragRef'.elementId).locked
        /\ lastOp' = "startResize" => ~Get(state.elements, resizeRef'.elementId).locked ]_vars

\* ----------------------------------------------------------------------- C22
\* C22: a drag or resize gesture pushes exactly one snapshot onto past, at
\* gesture start and equal to the elements map before the gesture; no step
\* between pointer-down and pointer-up pushes another; one undo after the
\* gesture restores the elements the gesture found.
OneSnapshotPerGesture ==
    [][ /\ lastOp' \in {"startDrag", "startResize"} =>
               /\ state'.past = Append(state.past, state.elements)
               /\ state'.elements = state.elements
        /\ lastOp' \in {"dragMove", "drag", "endDrag", "resizeMove", "resize", "endResize"} =>
               state'.past = state.past
        /\ (lastOp \in GestureEnds /\ clean /\ lastOp' = "undoOp") =>
               /\ AsMap(state'.elements) = AsMap(before)
               /\ Len(state'.past) = Len(state.past) - 1 ]_vars

\* a drag that moved an element has ended, with the snapshot of its start on top of past
DragEndedWithSnapshot ==
    /\ lastOp = "endDrag"
    /\ clean
    /\ AsMap(state.elements) # AsMap(before)
    /\ Len(state.past) > 0
    /\ state.past[Len(state.past)] = before

\* ----------------------------------------------------------------------- C23
\* the gesture states of the renderer that are active
ActiveGestures ==
    {g \in {"panning", "dragging", "resizing", "marquee", "drawing"} :
        \/ g = "panning" /\ panRef.active
        \/ g = "dragging" /\ dragRef.active
        \/ g = "resizing" /\ resizeRef.active
        \/ g = "marquee" /\ marqueeRef.active
        \/ g = "drawing" /\ drawStartRef # <<>>}
PointerUps == {"endPan", "endDrag", "endResize", "marqueeUp", "stopDrawing", "stopDrawingNone"}

\* C23: after a pointer-up no gesture state is active, whatever pointer-downs
\* came before it, and never are two gesture states active together
ReturnToIdle ==
    [][ /\ lastOp' \in PointerUps => ActiveGestures' = {}
        /\ Cardinality(ActiveGestures') <= 1 ]_vars

\* ----------------------------------------------------------------------- C24
\* C24: a pointer-down (primary button, no modifier) starts a drag only with
\* the select tool; with the hand tool it starts panning, also on an element,
\* and with a drawing tool it starts drawing
ToolGatesGesture ==
    [][ buttons' = buttons + 1 =>
            /\ lastOp' = "startDrag" => activeTool = "select"
            /\ activeTool = "hand" => lastOp' = "startPan"
            /\ activeTool \notin {"select", "hand"} => lastOp' = "startDrawing" ]_vars

\* ----------------------------------------------------------------------- C25
LeftHandles == {"top-left", "left", "bottom-left"}
RightHandles == {"top-right", "right", "bottom-right"}
TopHandles == {"top-left", "top", "top-right"}
BottomHandles == {"bottom-left", "bottom", "bottom-right"}

\* bounds b keep the side opposite the handle where the start bounds sb have it
Anchored(sb, handle, b) ==
    /\ handle \in LeftHandles => b.x + b.width = sb.x + sb.width
    /\ handle \in RightHandles => b.x = sb.x
    /\ handle \in TopHandles => b.y + b.height = sb.y + sb.height
    /\ handle \in BottomHandles => b.y = sb.y
    /\ handle \in {"left", "right"} => b.y = sb.y /\ b.height = sb.height
    /\ handle \in {"top", "bottom"} => b.x = sb.x /\ b.width = sb.width
    /\ b.width >= MIN_SIZE
    /\ b.height >= MIN_SIZE

\* C25: a resize step leaves the side opposite the dragged handle where the
\* start bounds have it, an edge handle changes one axis only, and width and
\* height stay at least 20
ResizeAnchorsOpposite ==
    [][ (lastOp' = "resize" /\ resizeRef.active /\ resizeRef.elementId \in touched') =>
            Anchored(resizeRef.startBounds, resizeRef.handle,
                     Get(state'.elements, resizeRef.elementId).bounds) ]_vars

\* ----------------------------------------------------------------------- C26
\* the edges of a rectangle a guide of the given type can lie on
GuideEdges(b, type) ==
    IF type = "vertical"
    THEN {Edges(b).left, Edges(b).right, Edges(b).centerX}
    ELSE {Edges(b).top, Edges(b).bottom, Edges(b).centerY}
GuidesOfType(type) == {i \in DOMAIN snap.guides : snap.guides[i].type = type}
\* root elements computeSnapGuides may compare against
SnapOthers ==
    {id \in Range(state.rootIds) :
        id # snap.movingId /\ ~Includes(state.selectedIds, id) /\ Has(state.elements, id)}

\* C26: computeSnapGuides compares against no moving or selected element,
\* adjusts each axis at most once, every guide lies exactly on an edge or
\* centre of snappedBounds, and width and height are as in movingBounds
SnapResult ==
    lastOp = "snapGuides" =>
        /\ SnapOthers = {} => snap.guides = <<>> /\ snap.snappedBounds = snap.movingBounds
        /\ \A i \in DOMAIN snap.guides :
               \E id \in SnapOthers :
                   snap.guides[i].position \in
                       GuideEdges(Get(state.elements, id).bounds, snap.guides[i].type)
        /\ Cardinality(GuidesOfType("vertical")) <= 1
        /\ Cardinality(GuidesOfType("horizontal")) <= 1
        /\ \A i \in DOMAIN snap.guides :
               snap.guides[i].position \in GuideEdges(snap.snappedBounds, snap.guides[i].type)
        /\ snap.snappedBounds.width = snap.movingBounds.width
        /\ snap.snappedBounds.height = snap.movingBounds.height

\* ----------------------------------------------------------------------- C27
\* the bounds one frame gives the dragged element when it handles the whole
\* pointer movement from the grab point to the last pointer position at once
DragResult(b, lastPos) ==
    [b EXCEPT !.x = snapToGrid(@ + snapToGrid(lastPos.x - GrabPoint(b).x)),
              !.y = snapToGrid(@ + snapToGrid(lastPos.y - GrabPoint(b).y))]
\* the drag gesture began on an element whose position is on the grid
DragFromGrid ==
    /\ Has(before, dragRef.elementId)
    /\ snapToGrid(Get(before, dragRef.elementId).bounds.x) = Get(before, dragRef.elementId).bounds.x
    /\ snapToGrid(Get(before, dragRef.elementId).bounds.y) = Get(before, dragRef.elementId).bounds.y
\* the frame callback that is pending for the resize gesture
PendingResize == CHOOSE i \in DOMAIN frames : frames[i].id = resizeRef.rafId

\* C27: the bounds after pointer-up of a drag or resize gesture are those of
\* the gesture's start and the last pointer position, however the pointer
\* moves interleave with the frame callbacks; no movement is lost
CoalescingKeepsResult ==
    [][ /\ (lastOp' = "endDrag" /\ clean' /\ DragFromGrid
            /\ ~Get(before, dragRef.elementId).locked) =>
               Get(state'.elements, dragRef.elementId).bounds =
                   DragResult(Get(before, dragRef.elementId).bounds, dragRef.lastPos)
        /\ (lastOp' = "endResize" /\ clean' /\ resizeRef.rafId # 0) =>
               Get(state'.elements, resizeRef.elementId).bounds =
                   Get(resizeElement(state, resizeRef.elementId,
                                     frames[PendingResize].bounds).elements,
                       resizeRef.elementId).bounds ]_vars

\* ----------------------------------------------------------------------- C28
\* the elements reached from the given ones along childrenIds, in at most fuel steps
RECURSIVE StoreReach(_, _, _)
StoreReach(els, ids, fuel) ==
    IF fuel = 0 THEN ids
    ELSE StoreReach(els,
                    ids \cup UNION {Range(Get(els, id).childrenIds) : id \in ids \cap Ids(els)},
                    fuel - 1)
\* following parentId from the element leaves the hierarchy at the root
StoreAcyclic(els) ==
    \A id \in Ids(els) :
        id \notin StoreAncestors(els, Get(els, id).parentId, Len(els))

\* C28: moveElement changes nothing when the new parent is the current parent,
\* the element itself or one of its descendants; the parent relation stays
\* acyclic and every element is reachable from rootElementIds
NoReparentCycle ==
    [][ /\ \A id \in touched' \cap Ids(storeScene.elements) :
               \A np \in touched' \cup {NoId} :
                   (/\ lastOp' = "storeMove"
                    /\ touched' = {id, np}
                    /\ \/ np = Get(storeScene.elements, id).parentId
                       \/ id \in StoreAncestors(storeScene.elements, np,
                                                 Len(storeScene.elements)))
                   => storeScene' = storeScene
        /\ StoreAcyclic(storeScene'.elements)
        /\ Ids(storeScene'.elements) \subseteq
               StoreReach(storeScene'.elements, Range(storeScene'.rootElementIds),
                          Len(storeScene'.elements)) ]_vars

\* ----------------------------------------------------------------------- C29
\* C29: the response of an older request never replaces what the response of
\* a newer request has set: the request shown by typography and by
\* generatedUI never goes back to an earlier one
NoStaleResponse ==
    [][ /\ ai'.typography >= ai.typography
        /\ ai'.generatedUI >= ai.generatedUI ]_vars

\* ----------------------------------------------------------------------- C30
\* the calls of useCanvas that append to the history
SketchAppends ==
    \/ lastOp' \in {"sketchClear", "sketchSetElements"}
    \/ lastOp' = "sketchStop" /\ sketch.isDrawing /\ sketch.currentElement # <<>>

====
